---------------------------- MODULE Spec2Model ----------------------------
(***************************************************************************)
(* The queuety broker: topic registry, publish fan-out, acknowledgement,   *)
(* persistence (badger) and the redelivery scheduler, with the client      *)
(* library's publish / consume-and-ACK behaviour as the environment.       *)
(*                                                                         *)
(* The broker is the revision with framed, format-tagged messages          *)
(* (handleMessage, sendNewMessage with Client{conn, Format}); the store is *)
(* server/persistence.go, the scheduler server/scheduler.go.  A handler    *)
(* runs as one step.                                                       *)
(*                                                                         *)
(* Go strings that the code inspects by prefix (message ids, store keys)   *)
(* are sequences of tokens: "false-a" is <<"false", "-", "a">>, "falsea"   *)
(* is <<"false", "a">>, the empty string is << >>.  Topic names and bodies *)
(* are only compared for equality and stay TLA+ strings.                   *)
(***************************************************************************)
EXTENDS Integers, Sequences, FiniteSets, TLC

\* ------------------------------------------------------------------ bounds
NumConns == 2
NumUuids == 1
MaxSubs  == 2
MaxSent  == 4

Conns     == 1..NumConns
UuidNames == <<"a", "b", "c", "d">>
Uuids     == {UuidNames[i] : i \in 1..NumUuids}
\* the empty name is a legal topic name: it is the zero value of Topic
TopicNames == {"", "t"}
Bodies     == {"hello"}

\* ------------------------------------------------------- program constants
FormatJSON   == 1
FormatBinary == 2

MessageTypeNew == "NEW_MESSAGE"
MessageTypeACK == "ACK"
MsgPrefixFalse == <<"false">>
\* the scan keeps entries with Attempts() <= 3
ScanMaxAttempts == 3

\* ----------------------------------------------------------------- strings
HasPrefix(s, p) == Len(s) >= Len(p) /\ SubSeq(s, 1, Len(p)) = p

\* fmt.Sprintf("%s-%s", prefix, id)
generateID(prefix, id) == prefix \o <<"-">> \o id

TokRank(t) ==
    CASE t = "-"     -> 1
      [] t = "a"     -> 2
      [] t = "b"     -> 3
      [] t = "c"     -> 4
      [] t = "d"     -> 5
      [] t = "false" -> 6
      [] OTHER       -> 7

\* byte-wise order of two keys, as badger's iterator sorts them
RECURSIVE KeyLess(_, _)
KeyLess(a, b) ==
    IF a = << >> THEN b # << >>
    ELSE IF b = << >> THEN FALSE
    ELSE IF Head(a) = Head(b) THEN KeyLess(Tail(a), Tail(b))
    ELSE TokRank(Head(a)) < TokRank(Head(b))

RECURSIVE SortKeys(_)
SortKeys(S) ==
    IF S = {} THEN << >>
    ELSE LET m == CHOOSE x \in S : \A y \in S \ {x} : KeyLess(x, y)
         IN  <<m>> \o SortKeys(S \ {m})

\* ----------------------------------------------------------- message model
\* the zero value of the Message struct (all fields unexported)
ZeroMessage ==
    [id |-> << >>, nextID |-> << >>, mType |-> "", user |-> "", password |-> "",
     topic |-> "", body |-> "", bodyString |-> "", timestamp |-> 0,
     ack |-> FALSE, attempts |-> 0]

IncAttempts(m) == [m EXCEPT !.attempts = @ + 1]

updateACK(m) == [m EXCEPT !.id = m.nextID, !.ack = TRUE]

\* Marshall copies every field into messageJSON, whose fields are exported
\* and tagged; the stored bytes are that JSON object
Marshall(m) ==
    [ID |-> m.id, NextID |-> m.nextID, Type |-> m.mType, User |-> m.user,
     Password |-> m.password, Topic |-> m.topic, Body |-> m.body,
     BodyString |-> m.bodyString, Timestamp |-> m.timestamp,
     ACK |-> m.ack, Attempts |-> m.attempts]

\* Message.Unmarshal: decodes into messageJSON and copies every field back
Unmarshal(j) ==
    [id |-> j.ID, nextID |-> j.NextID, mType |-> j.Type, user |-> j.User,
     password |-> j.Password, topic |-> j.Topic, body |-> j.Body,
     bodyString |-> j.BodyString, timestamp |-> j.Timestamp,
     ack |-> j.ACK, attempts |-> j.Attempts]

\* json.Unmarshal(v, &msg) with msg a Message: encoding/json sets exported
\* fields only and Message has none (and no UnmarshalJSON), so a valid
\* object v is accepted and msg is left as it was
jsonUnmarshal(v, msg) == msg


\* ------------------------------------------------------- persistence store
\* the store is a finite map from key to stored bytes
Put(db, k, v) == [x \in (DOMAIN db) \cup {k} |-> IF x = k THEN v ELSE db[x]]
Del(db, k)    == [x \in (DOMAIN db) \ {k} |-> db[x]]

\* badger rejects the empty key on Set and on Delete (ErrEmptyKey); Delete of
\* an absent key is a blind write and succeeds
txnDeleteFails(db, k) == k = << >>
txnSetFails(k)        == k = << >>

\* saveMessage: [err, db]
saveMessage_keepsAttempts(db, message) ==
    IF ~HasPrefix(message.id, MsgPrefixFalse)
    THEN [err |-> TRUE, db |-> db]
    ELSE [err |-> FALSE, db |-> Put(db, message.id, Marshall(message))]
saveMessage(db, message) ==
    IF ~HasPrefix(message.id, MsgPrefixFalse)
    THEN [err |-> TRUE, db |-> db]
    ELSE LET m == IncAttempts(message)
         IN  IF txnSetFails(m.id) THEN [err |-> TRUE, db |-> db]
             ELSE [err |-> FALSE, db |-> Put(db, m.id, Marshall(m))]

\* updateMessageACK: one Update transaction, discarded as a whole on error
updateMessageACK_keepsOldKey(db, message) ==
    LET m == updateACK(message)
    IN  IF txnDeleteFails(db, message.id) \/ txnSetFails(m.id)
        THEN [err |-> TRUE, db |-> db]
        ELSE [err |-> FALSE, db |-> Put(db, m.id, Marshall(m))]
updateMessageACK_needsOldKey(db, message) ==
    LET m == updateACK(message)
    IN  IF message.id \notin DOMAIN db \/ txnSetFails(m.id)
        THEN [err |-> TRUE, db |-> db]
        ELSE [err |-> FALSE, db |-> Put(Del(db, message.id), m.id, Marshall(m))]
updateMessageACK_partial(db, message) ==
    IF txnDeleteFails(db, message.id) THEN [err |-> TRUE, db |-> db]
    ELSE LET m == updateACK(message)
         IN  IF txnSetFails(m.id) THEN [err |-> TRUE, db |-> Del(db, message.id)]
             ELSE [err |-> FALSE,
                   db  |-> Put(Del(db, message.id), m.id, Marshall(m))]
updateMessageACK(db, message) ==
    IF txnDeleteFails(db, message.id) THEN [err |-> TRUE, db |-> db]
    ELSE LET m == updateACK(message)
         IN  IF txnSetFails(m.id) THEN [err |-> TRUE, db |-> db]
             ELSE [err |-> FALSE,
                   db  |-> Put(Del(db, message.id), m.id, Marshall(m))]

\* the iterator visits the keys with the prefix in key order
RECURSIVE scanFrom(_, _)
scanFrom(db, keys) ==
    IF keys = << >> THEN << >>
    ELSE LET k   == Head(keys)
             msg == jsonUnmarshal(db[k], ZeroMessage)
         IN  IF msg.attempts <= ScanMaxAttempts
             THEN <<[key |-> k, msg |-> IncAttempts(msg)]>> \o scanFrom(db, Tail(keys))
             ELSE scanFrom(db, Tail(keys))

\* the scan with, for each returned message, the key it was read under
scanEntries(db) ==
    scanFrom(db, SortKeys({k \in DOMAIN db : HasPrefix(k, MsgPrefixFalse)}))

checkNotDeliveredMessages(db) ==
    LET es == scanEntries(db) IN [i \in 1..Len(es) |-> es[i].msg]


\* ------------------------------------------------------------- broker core
VARIABLES
    clients,       \* Server.clients: topic name -> list of Client{conn, Format}
    connState,     \* per connection: "idle", "open", "gone" (peer closed) or
                   \* "closed" (the broker closed it in disconnect)
    DB,            \* Server.DB: the badger store
    sentMessages,  \* Server.sentMessages: topic name -> counter
    inbox,         \* frames delivered to each client and not yet consumed
    published,     \* uuids the publishing clients have generated so far
    cycles,        \* history: store key -> send cycles made on its behalf
    last,          \* history: the last handler run, its input and its writes
    User,          \* Server.User
    Password,      \* Server.Password
    authed,        \* history: the sessions that were sent AUTH_SUCCESS
    firstFormat,   \* history: session -> format of its first NEW_SUB frame
    handler,       \* session -> the sendNewMessage calls its handler has made
                   \* step by step, in order, each with its position in the loop
    runner,        \* scheduler goroutine of a connection -> its position
    listener,      \* Server.listener: "open" or "closed"
    acceptor,      \* the position of the loop of Start
    sending,       \* session -> the call of sendNewMessage its handler is in,
                   \* statement by statement
    wire,          \* connection -> the parts written to its socket, in order
    caps,          \* topic name -> capacity of the array behind its list
    leaving        \* session -> the position of its call of disconnect

vars == <<clients, connState, DB, sentMessages, inbox, published, cycles, last,
          User, Password, authed, firstFormat, handler, runner,
          listener, acceptor, sending, wire, caps, leaving>>

config == <<User, Password>>

start == <<listener, acceptor>>

tasks == <<sending, wire, caps, leaving>>

EmptyMap == [x \in {} |-> 0]

\* s.clients[topic]: a missing key reads as the nil slice
lookupClients(cl, topic) == IF topic \in DOMAIN cl THEN cl[topic] ELSE << >>

\* where a send on the connection fails: an open connection takes the three
\* writes; one the broker has closed fails at the first write; one whose peer
\* went away fails at the write the environment picks (failAt)
FailPoints == {"flag", "length", "payload"}
writeOutcome(cs, conn, failAt) ==
    CASE cs[conn] = "open"   -> "ok"
      [] cs[conn] = "closed" -> "flag"
      [] OTHER               -> failAt

incSentMessages(sent, topic) ==
    IF topic \in DOMAIN sent
    THEN [sent EXCEPT ![topic] = @ + 1]
    ELSE Put(sent, topic, 1)

\* Server.save: the error of saveMessage is logged and dropped
save(db, message) == saveMessage(db, message).db

saveUnsentMessage(db, message) == save(db, IncAttempts(message))

\* the branch taken after a successful payload write
saveAfterWrite(db, message) ==
    IF message.attempts <= 1 THEN save(db, message) ELSE db

\* the loop over the subscribers; acc is [DB, sentMessages, writes]
RECURSIVE fanout(_, _, _, _, _, _)
fanout(message, cls, i, cs, failAt, acc) ==
    IF i > Len(cls) THEN acc
    ELSE LET client == cls[i]
             w      == writeOutcome(cs, client.conn, failAt)
         IN  IF w \in {"flag", "length"} THEN acc
             ELSE IF w = "payload"
             THEN [acc EXCEPT !.DB = saveUnsentMessage(@, message)]
             ELSE fanout(message, cls, i + 1, cs, failAt,
                    [DB           |-> saveAfterWrite(acc.DB, message),
                     sentMessages |-> incSentMessages(acc.sentMessages, message.topic),
                     writes       |-> Append(acc.writes,
                                         [conn   |-> client.conn,
                                          format |-> client.Format,
                                          msg    |-> message])])

sendNewMessage_saveFirst(cl, cs, failAt, acc, message) ==
    fanout(message, lookupClients(cl, message.topic), 1, cs, failAt,
           [acc EXCEPT !.DB = save(@, message)])
sendNewMessage(cl, cs, failAt, acc, message) ==
    LET cls == lookupClients(cl, message.topic)
    IN  IF Len(cls) = 0 THEN acc
        ELSE fanout(message, cls, 1, cs, failAt, acc)

addNewSubscriber(cl, conn, topic, format) ==
    Put(cl, topic, Append(lookupClients(cl, topic), [conn |-> conn, Format |-> format]))

addNewTopic(cl, name) == Put(cl, name, << >>)

\* append(clients[:i], clients[i+1:]...)
RemoveAt(seq, i) == SubSeq(seq, 1, i - 1) \o SubSeq(seq, i + 1, Len(seq))

\* the body of the range loop for one topic: drop the first row of conn,
\* then delete the topic when its list is empty
disconnectTopic(cls, conn) ==
    IF \E i \in 1..Len(cls) : cls[i].conn = conn
    THEN RemoveAt(cls, CHOOSE i \in 1..Len(cls) :
                         /\ cls[i].conn = conn
                         /\ \A j \in 1..(i - 1) : cls[j].conn # conn)
    ELSE cls

disconnect_keepsEmpty(cl, conn) ==
    [t \in DOMAIN cl |-> disconnectTopic(cl[t], conn)]
disconnect(cl, conn) ==
    LET after == [t \in DOMAIN cl |-> disconnectTopic(cl[t], conn)]
        keep  == {t \in DOMAIN cl : Len(after[t]) # 0}
    IN  [t \in keep |-> after[t]]


\* ---------------------------------------------------------- client library
\* QConn.Publish and its variants: id = "false-" + uuid, next_id = uuid,
\* the builder's attempts = 0 and ack = false
PublishMessage(u, topic, body) ==
    [ZeroMessage EXCEPT !.id = generateID(MsgPrefixFalse, <<u>>), !.nextID = <<u>>,
                        !.mType = MessageTypeNew, !.topic = topic, !.body = body,
                        !.timestamp = 1, !.ack = FALSE]

\* QConn.updateMessage: the ACK frame echoes the received frame
updateMessage(msg) ==
    [ZeroMessage EXCEPT !.id = msg.id, !.nextID = msg.nextID, !.user = msg.user,
                        !.password = msg.password, !.topic = msg.topic,
                        !.body = msg.body, !.timestamp = msg.timestamp,
                        !.attempts = msg.attempts, !.mType = MessageTypeACK,
                        !.ack = TRUE]

\* QConn.defaultFormat: JSON unless SetDefaultFormat chose binary; here the
\* first client keeps the default and the others consume binary
defaultFormat(c) == IF c = 1 THEN FormatJSON ELSE FormatBinary

\* ------------------------------------------------------------------ actions
NoWrites == << >>

\* found: for an ACK, whether the key msg.id was in the store before it;
\* emptied: for a disconnect, the topics whose only row was the session's
Record(op, conn, msg, writes, err, scanned) ==
    [op |-> op, conn |-> conn, msg |-> msg, writes |-> writes, err |-> err,
     scanned |-> scanned, found |-> op = "ack" /\ msg.id \in DOMAIN DB,
     emptied |-> IF op = "eof"
                 THEN {t \in DOMAIN clients :
                          Len(clients[t]) = 1 /\ clients[t][1].conn = conn}
                 ELSE {}]

Deliver(box, writes) ==
    [c \in Conns |-> box[c] \cup {writes[i].msg : i \in {j \in 1..Len(writes) : writes[j].conn = c}}]

WithinSent(sent) == \A t \in DOMAIN sent : sent[t] <= MaxSent

Bump(cyc, k) == IF k \in DOMAIN cyc THEN [cyc EXCEPT ![k] = @ + 1] ELSE Put(cyc, k, 1)

\* a scheduler goroutine: not started, blocked on the ticker, or in a pass
\* over the messages its scan returned
RunnerOff     == [pc |-> "off", entries |-> << >>]
RunnerWaiting == [pc |-> "wait", entries |-> << >>]

\* a handler that is not inside sendNewMessage, and one not inside disconnect
NotSending == [pc |-> "idle", msg |-> ZeroMessage, cls |-> << >>, i |-> 0,
               client |-> [conn |-> 0, Format |-> 0],
               ok |-> FALSE, shared |-> FALSE, started |-> << >>]
NotLeaving == [pc |-> "off", topics |-> {}]

\* Start has listened and is blocked in Accept; no goroutine is inside a call
InitTasks ==
    /\ listener = "open"
    /\ acceptor = "accept"
    /\ sending = [c \in Conns |-> NotSending]
    /\ wire = [c \in Conns |-> << >>]
    /\ caps = EmptyMap
    /\ leaving = [c \in Conns |-> NotLeaving]

\* NewServer: user and password come from Config.Auth, empty without it
InitConfig(user, password) ==
    /\ InitTasks
    /\ handler = [c \in Conns |-> << >>]
    /\ runner = [c \in Conns |-> RunnerOff]
    /\ User = user
    /\ Password = password
    /\ authed = {}
    /\ firstFormat = EmptyMap
    /\ clients = EmptyMap
    /\ connState = [c \in Conns |-> "idle"]
    /\ DB = EmptyMap
    /\ sentMessages = EmptyMap
    /\ inbox = [c \in Conns |-> {}]
    /\ published = {}
    /\ cycles = EmptyMap
    /\ last = Record("init", 0, ZeroMessage, NoWrites, FALSE, << >>)

Init == InitConfig("", "")

\* Start: the accept loop starts a handler (and one more scheduler runner)
Accept(c) ==
    /\ listener = "open"
    /\ acceptor = "accept"
    /\ connState[c] = "idle"
    /\ connState' = [connState EXCEPT ![c] = "open"]
    /\ runner' = [runner EXCEPT ![c] = RunnerWaiting]
    /\ last' = Record("accept", 0, ZeroMessage, NoWrites, FALSE, << >>)
    /\ UNCHANGED <<clients, DB, sentMessages, inbox, published, cycles>>
    /\ UNCHANGED <<config, start, tasks, authed, firstFormat, handler>>

\* handleMessage, case NEW_TOPIC
HandleNewTopic(c, name) ==
    /\ connState[c] = "open"
    /\ clients' = addNewTopic(clients, name)
    /\ last' = Record("topic", c, [ZeroMessage EXCEPT !.topic = name], NoWrites, FALSE, << >>)
    /\ UNCHANGED <<connState, DB, sentMessages, inbox, published, cycles>>
    /\ UNCHANGED <<config, start, tasks, authed, firstFormat, handler, runner>>

\* handleMessage, case NEW_SUB: the row takes the format of the frame
Subscribe(c, topic, format) ==
    /\ connState[c] = "open"
    /\ Len(lookupClients(clients, topic)) < MaxSubs
    /\ clients' = addNewSubscriber(clients, c, topic, format)
    /\ firstFormat' = IF c \in DOMAIN firstFormat THEN firstFormat
                      ELSE Put(firstFormat, c, format)
    /\ last' = Record("sub", c, [ZeroMessage EXCEPT !.topic = topic], NoWrites, FALSE, << >>)
    /\ UNCHANGED <<connState, DB, sentMessages, inbox, published, cycles>>
    /\ UNCHANGED <<config, start, tasks, authed, handler, runner>>

\* QConn.subscribe writes the frame in the connection's default format
HandleNewSub(c, topic) == Subscribe(c, topic, defaultFormat(c))

\* handleMessage, case NEW_MESSAGE
Publish(c, message, failAt) ==
    LET r == sendNewMessage(clients, connState, failAt,
                            [DB |-> DB, sentMessages |-> sentMessages, writes |-> NoWrites],
                            message)
    IN  /\ connState[c] = "open"
        /\ WithinSent(r.sentMessages)
        /\ DB' = r.DB
        /\ sentMessages' = r.sentMessages
        /\ inbox' = Deliver(inbox, r.writes)
        /\ cycles' = IF r.writes # NoWrites THEN Bump(cycles, message.id) ELSE cycles
        /\ last' = Record("publish", c, message, r.writes, FALSE, << >>)
        /\ UNCHANGED <<clients, connState>>
        /\ UNCHANGED <<config, start, tasks, authed, firstFormat, handler, runner>>

\* a publisher using the client library: a fresh uuid for every message
HandleNewMessage(c, u, topic, body, failAt) ==
    /\ u \notin published
    /\ published' = published \cup {u}
    /\ Publish(c, PublishMessage(u, topic, body), failAt)

\* handleMessage, case ACK
Ack(c, message) ==
    LET r == updateMessageACK(DB, message)
    IN  /\ connState[c] = "open"
        /\ DB' = r.db
        /\ last' = Record("ack", c, message, NoWrites, r.err, << >>)
        /\ UNCHANGED <<clients, connState, sentMessages, published, cycles>>
        /\ UNCHANGED <<config, start, tasks, authed, firstFormat, handler, runner>>

\* a consumer using the client library: it ACKs the frame it has just read
HandleAck(c, msg) ==
    /\ msg \in inbox[c]
    /\ inbox' = [inbox EXCEPT ![c] = @ \ {msg}]
    /\ Ack(c, updateMessage(msg))

\* the peer closes its end
PeerClose(c) ==
    /\ connState[c] = "open"
    /\ connState' = [connState EXCEPT ![c] = "gone"]
    /\ inbox' = [inbox EXCEPT ![c] = {}]
    /\ last' = Record("close", 0, ZeroMessage, NoWrites, FALSE, << >>)
    /\ UNCHANGED <<clients, DB, sentMessages, published, cycles>>
    /\ UNCHANGED <<config, start, tasks, authed, firstFormat, handler, runner>>

\* handleConnections reads io.EOF: disconnect, then the loop ends
HandleEOF(c) ==
    /\ connState[c] = "gone"
    /\ clients' = disconnect(clients, c)
    /\ connState' = [connState EXCEPT ![c] = "closed"]
    /\ last' = Record("eof", c, ZeroMessage, NoWrites, FALSE, << >>)
    /\ UNCHANGED <<DB, sentMessages, inbox, published, cycles>>
    /\ UNCHANGED <<config, start, tasks, authed, firstFormat, handler, runner>>

\* Server.run, one tick: the scan, then sendNewMessage for each message
RECURSIVE redeliver(_, _, _, _, _)
redeliver(cl, cs, failAt, entries, st) ==
    IF entries = << >> THEN st
    ELSE LET e   == Head(entries)
             acc == sendNewMessage(cl, cs, failAt, st.acc, e.msg)
         IN  redeliver(cl, cs, failAt, Tail(entries),
                       [acc    |-> acc,
                        cycles |-> IF Len(acc.writes) > Len(st.acc.writes)
                                   THEN Bump(st.cycles, e.key) ELSE st.cycles])

Tick(failAt) ==
    LET r == redeliver(clients, connState, failAt, scanEntries(DB),
                       [acc    |-> [DB |-> DB, sentMessages |-> sentMessages,
                                    writes |-> NoWrites],
                        cycles |-> cycles])
    IN  /\ \E c \in Conns : connState[c] # "idle"
        /\ WithinSent(r.acc.sentMessages)
        /\ DB' = r.acc.DB
        /\ sentMessages' = r.acc.sentMessages
        /\ inbox' = Deliver(inbox, r.acc.writes)
        /\ cycles' = r.cycles
        /\ last' = Record("tick", 0, ZeroMessage, r.acc.writes, FALSE,
                          checkNotDeliveredMessages(DB))
        /\ UNCHANGED <<clients, connState, published>>
        /\ UNCHANGED <<config, start, tasks, authed, firstFormat, handler, runner>>

Next ==
    \/ \E c \in Conns : Accept(c)
    \/ \E c \in Conns, name \in TopicNames : HandleNewTopic(c, name)
    \/ \E c \in Conns, topic \in TopicNames : HandleNewSub(c, topic)
    \/ \E c \in Conns, u \in Uuids, topic \in TopicNames, body \in Bodies,
          failAt \in FailPoints : HandleNewMessage(c, u, topic, body, failAt)
    \/ \E c \in Conns : \E msg \in inbox[c] : HandleAck(c, msg)
    \/ \E c \in Conns : PeerClose(c)
    \/ \E c \in Conns : HandleEOF(c)
    \/ \E failAt \in FailPoints : Tick(failAt)

Spec == Init /\ [][Next]_vars


\* --------------------------------------------------------------- raw frames
\* a client that writes frames by hand: DecodeMessage takes every field,
\* ack and attempts included, from the frame
RawMessages ==
    {[PublishMessage(u, "t", body) EXCEPT !.ack = a] :
        u \in Uuids, body \in Bodies, a \in BOOLEAN}

RawNewMessage(c, m, failAt) ==
    /\ published' = published
    /\ Publish(c, m, failAt)

RawAck(c, m) ==
    /\ inbox' = inbox
    /\ Ack(c, [m EXCEPT !.mType = MessageTypeACK])

NextRaw ==
    \/ \E c \in Conns : Accept(c)
    \/ \E c \in Conns, topic \in TopicNames : HandleNewSub(c, topic)
    \/ \E c \in Conns, m \in RawMessages, failAt \in FailPoints : RawNewMessage(c, m, failAt)
    \/ \E c \in Conns, m \in RawMessages : RawAck(c, m)
    \/ \E failAt \in FailPoints : Tick(failAt)

SpecRaw == Init /\ [][NextRaw]_vars

\* ------------------------------------------------------------ authentication
MessageTypeAuth    == "AUTH"
MessageAuthSuccess == "AUTH_SUCCESS"
MessageAuthFailed  == "AUTH_FAILED"

\* the credentials a broker is configured with and the ones a client offers
Users     == {"", "u"}
Passwords == {"", "p"}

updateAuthSuccess(m) == [m EXCEPT !.mType = MessageAuthSuccess]
updateAuthFailed(m)  == [m EXCEPT !.mType = MessageAuthFailed]

validateAuth(user, password, msg) == user = msg.user /\ password = msg.password

needAuth_userOnly(user, password) == user # ""
needAuth(user, password) ==
    IF user # "" THEN TRUE
    ELSE IF password # "" THEN TRUE
    ELSE FALSE

\* doLogin: the reply it writes to the connection; a failed login does not
\* close the connection (only a reply that Marshall cannot encode does, see
\* HandleAuthFrame)
doLogin(user, password, message) ==
    IF ~needAuth(user, password) THEN updateAuthSuccess(message)
    ELSE IF ~validateAuth(user, password, message) THEN updateAuthFailed(message)
    ELSE updateAuthSuccess(message)

\* the reply of doLogin is the bare JSON: no format flag, no length
Unframed == 0

\* Connect: the AUTH frame the client library builds
AuthMessage(u, user, password) ==
    [ZeroMessage EXCEPT !.id = <<u>>, !.mType = MessageTypeAuth, !.user = user,
                        !.password = password, !.timestamp = 1]

\* handleMessage, case AUTH
HandleAuth(c, message) ==
    LET reply == doLogin(User, Password, message)
    IN  /\ connState[c] = "open"
        /\ authed' = IF reply.mType = MessageAuthSuccess THEN authed \cup {c} ELSE authed
        /\ last' = Record("auth", c, message,
                          <<[conn |-> c, format |-> Unframed, msg |-> reply]>>,
                          FALSE, << >>)
        /\ UNCHANGED <<clients, connState, DB, sentMessages, inbox, published, cycles>>
        /\ UNCHANGED <<config, start, tasks, firstFormat, handler, runner>>

InitAuth == \E user \in Users, password \in Passwords : InitConfig(user, password)

NextAuth ==
    \/ \E c \in Conns : Accept(c)
    \/ \E c \in Conns, u \in Uuids, user \in Users, password \in Passwords :
          HandleAuth(c, AuthMessage(u, user, password))
    \/ \E c \in Conns, name \in TopicNames : HandleNewTopic(c, name)
    \/ \E c \in Conns, topic \in TopicNames : HandleNewSub(c, topic)
    \/ \E c \in Conns, u \in Uuids, topic \in TopicNames, body \in Bodies,
          failAt \in FailPoints : HandleNewMessage(c, u, topic, body, failAt)
    \/ \E c \in Conns : \E msg \in inbox[c] : HandleAck(c, msg)

SpecAuth == InitAuth /\ [][NextAuth]_vars

\* ------------------------------------------------------ subscription format
Formats == {FormatJSON, FormatBinary}

\* a session whose NEW_SUB frames differ in format (SetDefaultFormat between
\* two subscriptions, or frames written by hand)
RawNewSub(c, topic, format) == Subscribe(c, topic, format)

NextFormat ==
    \/ \E c \in Conns : Accept(c)
    \/ \E c \in Conns, topic \in TopicNames, format \in Formats : RawNewSub(c, topic, format)
    \/ \E c \in Conns, u \in Uuids, topic \in TopicNames, body \in Bodies,
          failAt \in FailPoints : HandleNewMessage(c, u, topic, body, failAt)
    \/ \E failAt \in FailPoints : Tick(failAt)

SpecFormat == Init /\ [][NextFormat]_vars

\* ------------------------------------------------------------ frame length
\* the limit of the consumers of the client library: 10 MiB
MaxFrameLength == 10 * 1024 * 1024

\* bodies by size: "huge" stands for a body of 10 MiB
FrameBodies == Bodies \cup {"huge"}
BodyLen(body) == IF body = "huge" THEN MaxFrameLength ELSE 5

\* the length prefix of a frame: the payload is the envelope of the JSON
\* encoding and the body; the prefix is a uint32 and the lengths here stay
\* far below its range, so no length wraps
EnvelopeLen == 64
payloadLength(m) == EnvelopeLen + BodyLen(m.body)

Frames ==
    {[length |-> payloadLength(m), msg |-> m] :
        m \in {PublishMessage(u, "t", body) : u \in Uuids, body \in FrameBodies}}

\* handleConnections, one turn of the loop: the flag, the length, a buffer of
\* that length filled from the connection, then handleMessage
HandleFrame(c, frame, failAt) ==
    /\ published' = published
    /\ Publish(c, frame.msg, failAt)

NextFrame ==
    \/ \E c \in Conns : Accept(c)
    \/ \E c \in Conns, topic \in TopicNames : HandleNewSub(c, topic)
    \/ \E c \in Conns, frame \in Frames, failAt \in FailPoints : HandleFrame(c, frame, failAt)
    \/ \E c \in Conns : \E msg \in inbox[c] : HandleAck(c, msg)

SpecFrame == Init /\ [][NextFrame]_vars

\* ------------------------------------------------- the scheduler, stepwise
\* Server.run after a tick: the query; with no message it waits for the next
\* tick, otherwise the pass over the messages follows
TickScan(r) ==
    LET entries == scanEntries(DB)
    IN  /\ runner[r].pc = "wait"
        /\ runner' = [runner EXCEPT ![r] =
                         IF entries = << >> THEN RunnerWaiting
                         ELSE [pc |-> "pass", entries |-> entries]]
        /\ last' = Record("scan", 0, ZeroMessage, NoWrites, FALSE,
                          checkNotDeliveredMessages(DB))
        /\ UNCHANGED <<clients, connState, DB, sentMessages, inbox, published, cycles>>
        /\ UNCHANGED <<config, start, tasks, authed, firstFormat, handler>>

\* Server.run: sendNewMessage for each message of the scan
TickSend(r, failAt) ==
    LET res == redeliver(clients, connState, failAt, runner[r].entries,
                         [acc    |-> [DB |-> DB, sentMessages |-> sentMessages,
                                      writes |-> NoWrites],
                          cycles |-> cycles])
    IN  /\ runner[r].pc = "pass"
        /\ WithinSent(res.acc.sentMessages)
        /\ runner' = [runner EXCEPT ![r] = RunnerWaiting]
        /\ DB' = res.acc.DB
        /\ sentMessages' = res.acc.sentMessages
        /\ inbox' = Deliver(inbox, res.acc.writes)
        /\ cycles' = res.cycles
        /\ last' = Record("send", 0, ZeroMessage, res.acc.writes, FALSE, << >>)
        /\ UNCHANGED <<clients, connState, published>>
        /\ UNCHANGED <<config, start, tasks, authed, firstFormat, handler>>

NextSched ==
    \/ \E c \in Conns : Accept(c)
    \/ \E c \in Conns, topic \in TopicNames : HandleNewSub(c, topic)
    \/ \E c \in Conns, u \in Uuids, topic \in TopicNames, body \in Bodies,
          failAt \in FailPoints : HandleNewMessage(c, u, topic, body, failAt)
    \/ \E c \in Conns : \E msg \in inbox[c] : HandleAck(c, msg)
    \/ \E r \in Conns : TickScan(r)
    \/ \E r \in Conns, failAt \in FailPoints : TickSend(r, failAt)

SpecSched == Init /\ [][NextSched]_vars

\* --------------------------------------------------- the fanout, stepwise
NumOrderUuids == 2
OrderUuids == {UuidNames[i] : i \in 1..NumOrderUuids}

\* one turn of the loop of sendNewMessage for the row client: the store and
\* counters after it, the frame written, and whether the loop goes on
fanoutStep(message, client, cs, failAt, acc) ==
    LET w == writeOutcome(cs, client.conn, failAt)
    IN  IF w \in {"flag", "length"} THEN [acc |-> acc, goesOn |-> FALSE]
        ELSE IF w = "payload"
        THEN [acc |-> [acc EXCEPT !.DB = saveUnsentMessage(@, message)],
              goesOn |-> FALSE]
        ELSE [acc |-> [DB           |-> saveAfterWrite(acc.DB, message),
                       sentMessages |-> incSentMessages(acc.sentMessages, message.topic),
                       writes       |-> Append(acc.writes,
                                           [conn   |-> client.conn,
                                            format |-> client.Format,
                                            msg    |-> message])],
              goesOn |-> TRUE]

\* a call of sendNewMessage: the message, the list it read from the registry
\* and the index of the row it writes next
CallDone(call) == call.i > Len(call.cls)

\* handleConnections calls handleMessage in its loop: it reads the next frame
\* when the call for the previous frame has returned
handlerReady_always(calls) == TRUE
handlerReady(calls) == \A k \in 1..Len(calls) : CallDone(calls[k])

\* the handler dispatches a NEW_MESSAGE frame: sendNewMessage reads the list
StartPublish(c, u, topic, body) ==
    LET message == PublishMessage(u, topic, body)
    IN  /\ connState[c] = "open"
        /\ handlerReady(handler[c])
        /\ u \notin published
        /\ published' = published \cup {u}
        /\ handler' = [handler EXCEPT ![c] =
                           Append(@, [msg |-> message,
                                      cls |-> lookupClients(clients, topic),
                                      i   |-> 1])]
        /\ last' = Record("dispatch", c, message, NoWrites, FALSE, << >>)
        /\ UNCHANGED <<clients, connState, DB, sentMessages, inbox, cycles>>
        /\ UNCHANGED <<config, start, tasks, authed, firstFormat, runner>>

\* the next turn of the loop of the k-th call of the handler of c
StepPublish(c, k, failAt) ==
    LET call == handler[c][k]
        res  == fanoutStep(call.msg, call.cls[call.i], connState, failAt,
                           [DB |-> DB, sentMessages |-> sentMessages, writes |-> NoWrites])
    IN  /\ ~CallDone(call)
        /\ WithinSent(res.acc.sentMessages)
        /\ handler' = [handler EXCEPT ![c][k].i =
                           IF res.goesOn THEN call.i + 1 ELSE Len(call.cls) + 1]
        /\ DB' = res.acc.DB
        /\ sentMessages' = res.acc.sentMessages
        /\ inbox' = Deliver(inbox, res.acc.writes)
        /\ cycles' = IF res.acc.writes # NoWrites THEN Bump(cycles, call.msg.id) ELSE cycles
        /\ last' = Record("write", c, call.msg, res.acc.writes, FALSE, << >>)
        /\ UNCHANGED <<clients, connState, published>>
        /\ UNCHANGED <<config, start, tasks, authed, firstFormat, runner>>

NextOrder ==
    \/ \E c \in Conns : Accept(c)
    \/ \E c \in Conns, topic \in TopicNames : HandleNewSub(c, topic)
    \/ \E c \in Conns, u \in OrderUuids, topic \in TopicNames, body \in Bodies :
          StartPublish(c, u, topic, body)
    \/ \E c \in Conns, failAt \in FailPoints : \E k \in 1..Len(handler[c]) :
          StepPublish(c, k, failAt)

SpecOrder == Init /\ [][NextOrder]_vars

\* ---------------------------------------------------------- raw ACK frames
\* ACK frames written by hand for the message "false-"+u: next_id is the
\* uuid, empty, or the "false-" key itself; attempts are 0 or above the limit
AckFramesFor(u) ==
    {[updateMessage(PublishMessage(u, "t", body))
         EXCEPT !.nextID = n, !.attempts = a] :
        body \in Bodies,
        n \in {<<u>>, << >>, generateID(MsgPrefixFalse, <<u>>)},
        a \in {0, ScanMaxAttempts + 1}}

AckFrames == UNION {AckFramesFor(u) : u \in Uuids}

NextAck ==
    \/ \E c \in Conns : Accept(c)
    \/ \E c \in Conns, topic \in TopicNames : HandleNewSub(c, topic)
    \/ \E c \in Conns, u \in Uuids, topic \in TopicNames, body \in Bodies,
          failAt \in FailPoints : HandleNewMessage(c, u, topic, body, failAt)
    \/ \E c \in Conns, m \in AckFrames : RawAck(c, m)
    \/ \E failAt \in FailPoints : Tick(failAt)

SpecAck == Init /\ [][NextAck]_vars

\* ------------------------------------------------------- the message codecs
\* Here a string is the sequence of its bytes, and a json.RawMessage is a
\* byte slice that may be nil.
NilBody == [isNil |-> TRUE, bytes |-> << >>]

RawMessage(b) == [isNil |-> FALSE, bytes |-> b]

\* the zero value of messageJSON
ZeroMessageJSON ==
    [ID |-> << >>, NextID |-> << >>, Type |-> << >>, User |-> << >>,
     Password |-> << >>, Topic |-> << >>, Body |-> NilBody,
     BodyString |-> << >>, Timestamp |-> 0, ACK |-> FALSE, Attempts |-> 0]

\* the fields of messageJSON in declaration order, each with its json tag
\* (id, next_id, type, user, password, topic, body, body_string, timestamp,
\* ack, attempts) as bytes
JSONFields ==
    << [name |-> "ID",         kind |-> "string", key |-> <<105, 100>>],
       [name |-> "NextID",     kind |-> "string", key |-> <<110, 101, 120, 116, 95, 105, 100>>],
       [name |-> "Type",       kind |-> "string", key |-> <<116, 121, 112, 101>>],
       [name |-> "User",       kind |-> "string", key |-> <<117, 115, 101, 114>>],
       [name |-> "Password",   kind |-> "string", key |-> <<112, 97, 115, 115, 119, 111, 114, 100>>],
       [name |-> "Topic",      kind |-> "topic",  key |-> <<116, 111, 112, 105, 99>>],
       [name |-> "Body",       kind |-> "raw",    key |-> <<98, 111, 100, 121>>],
       [name |-> "BodyString", kind |-> "string", key |-> <<98, 111, 100, 121, 95, 115, 116, 114, 105, 110, 103>>],
       [name |-> "Timestamp",  kind |-> "int",    key |-> <<116, 105, 109, 101, 115, 116, 97, 109, 112>>],
       [name |-> "ACK",        kind |-> "bool",   key |-> <<97, 99, 107>>],
       [name |-> "Attempts",   kind |-> "int",    key |-> <<97, 116, 116, 101, 109, 112, 116, 115>>] >>

\* Topic has one exported field without a tag: its key is "Name"
TopicFields == << [name |-> "Name", kind |-> "string", key |-> <<78, 97, 109, 101>>] >>

\* the JSON literals null, true and false
Lit == [null  |-> <<110, 117, 108, 108>>,
        true  |-> <<116, 114, 117, 101>>,
        false |-> <<102, 97, 108, 115, 101>>]

\* "0123456789abcdef"
Hex == <<48, 49, 50, 51, 52, 53, 54, 55, 56, 57, 97, 98, 99, 100, 101, 102>>

hexVal(c) ==
    IF c >= 48 /\ c <= 57 THEN c - 48
    ELSE IF c >= 97 /\ c <= 102 THEN c - 87
    ELSE IF c >= 65 /\ c <= 70 THEN c - 55
    ELSE -1

isSpace(c) == c \in {32, 9, 10, 13}

isDigit(c) == c >= 48 /\ c <= 57

hasAt(b, i, lit) ==
    /\ i + Len(lit) - 1 <= Len(b)
    /\ SubSeq(b, i, i + Len(lit) - 1) = lit

\* ---- json.Marshal
\* the \u00xx escape of one byte
escapeU(c) == <<92, 117, 48, 48, Hex[(c \div 16) + 1], Hex[(c % 16) + 1]>>

\* one byte of a string, with HTML escaping on (the default of json.Marshal).
\* A byte that is not valid UTF-8 becomes the escape \ufffd; the bytes 0xf8..0xff are
\* never valid, the multi-byte sequences 0x80..0xf7 are not in the inputs.
escapeByte(c) ==
    IF c = 34 \/ c = 92 THEN <<92, c>>
    ELSE IF c = 10 THEN <<92, 110>>
    ELSE IF c = 13 THEN <<92, 114>>
    ELSE IF c = 9 THEN <<92, 116>>
    ELSE IF c < 32 \/ c \in {60, 62, 38} THEN escapeU(c)
    ELSE IF c < 128 THEN <<c>>
    ELSE <<92, 117, 102, 102, 102, 100>>

RECURSIVE escapeString(_, _)
escapeString(s, i) ==
    IF i > Len(s) THEN << >> ELSE escapeByte(s[i]) \o escapeString(s, i + 1)

quote(s) == <<34>> \o escapeString(s, 1) \o <<34>>

RECURSIVE itoa(_)
itoa(n) ==
    IF n < 0 THEN <<45>> \o itoa(0 - n)
    ELSE IF n < 10 THEN <<48 + n>>
    ELSE itoa(n \div 10) \o <<48 + (n % 10)>>

\* ---- the scanner of encoding/json: where a value ends, 0 when it is invalid
RECURSIVE skipSpace(_, _)
skipSpace(b, i) ==
    IF i <= Len(b) /\ isSpace(b[i]) THEN skipSpace(b, i + 1) ELSE i

\* i is the byte after the opening quote; the result is the byte after the
\* closing one
RECURSIVE scanString(_, _)
scanString(b, i) ==
    IF i > Len(b) THEN 0
    ELSE IF b[i] = 34 THEN i + 1
    ELSE IF b[i] = 92 THEN
        IF i + 1 > Len(b) THEN 0
        ELSE IF b[i + 1] \in {34, 92, 47, 98, 102, 110, 114, 116}
             THEN scanString(b, i + 2)
        ELSE IF /\ b[i + 1] = 117
                /\ i + 5 <= Len(b)
                /\ \A k \in 2..5 : hexVal(b[i + k]) >= 0
             THEN scanString(b, i + 6)
        ELSE 0
    ELSE IF b[i] < 32 THEN 0
    ELSE scanString(b, i + 1)

RECURSIVE scanDigits(_, _)
scanDigits(b, i) ==
    IF i <= Len(b) /\ isDigit(b[i]) THEN scanDigits(b, i + 1) ELSE i

\* -? (0 | [1-9][0-9]*) (. [0-9]+)? ([eE] [+-]? [0-9]+)?
scanNumber(b, i) ==
    LET s == IF i <= Len(b) /\ b[i] = 45 THEN i + 1 ELSE i
        n == IF s <= Len(b) /\ b[s] = 48 THEN s + 1 ELSE scanDigits(b, s)
        f == IF n <= Len(b) /\ b[n] = 46 THEN scanDigits(b, n + 1) ELSE n
        x == IF f <= Len(b) /\ b[f] \in {101, 69} THEN f + 1 ELSE f
        g == IF x > f /\ x <= Len(b) /\ b[x] \in {43, 45} THEN x + 1 ELSE x
        e == IF x > f THEN scanDigits(b, g) ELSE f
    IN  IF n = s THEN 0
        ELSE IF f = n + 1 THEN 0
        ELSE IF x > f /\ e = g THEN 0
        ELSE e

RECURSIVE scanValue(_, _), scanElems(_, _), scanMembers(_, _)
\* i is the first byte of the value
scanValue(b, i) ==
    IF i > Len(b) THEN 0
    ELSE IF b[i] = 34 THEN scanString(b, i + 1)
    ELSE IF b[i] = 123 THEN
        LET j == skipSpace(b, i + 1)
        IN  IF j <= Len(b) /\ b[j] = 125 THEN j + 1 ELSE scanMembers(b, j)
    ELSE IF b[i] = 91 THEN
        LET j == skipSpace(b, i + 1)
        IN  IF j <= Len(b) /\ b[j] = 93 THEN j + 1 ELSE scanElems(b, j)
    ELSE IF b[i] = 116 THEN (IF hasAt(b, i, Lit.true) THEN i + 4 ELSE 0)
    ELSE IF b[i] = 102 THEN (IF hasAt(b, i, Lit.false) THEN i + 5 ELSE 0)
    ELSE IF b[i] = 110 THEN (IF hasAt(b, i, Lit.null) THEN i + 4 ELSE 0)
    ELSE IF b[i] = 45 \/ isDigit(b[i]) THEN scanNumber(b, i)
    ELSE 0

\* i is the first byte of an array element
scanElems(b, i) ==
    LET v == scanValue(b, i)
        n == IF v = 0 THEN 0 ELSE skipSpace(b, v)
    IN  IF v = 0 \/ n > Len(b) THEN 0
        ELSE IF b[n] = 93 THEN n + 1
        ELSE IF b[n] = 44 THEN scanElems(b, skipSpace(b, n + 1))
        ELSE 0

\* i is the opening quote of an object key
scanMembers(b, i) ==
    LET k == IF i <= Len(b) /\ b[i] = 34 THEN scanString(b, i + 1) ELSE 0
        c == IF k = 0 THEN 0 ELSE skipSpace(b, k)
        v == IF k = 0 \/ c > Len(b) \/ b[c] # 58 THEN 0
             ELSE scanValue(b, skipSpace(b, c + 1))
        n == IF v = 0 THEN 0 ELSE skipSpace(b, v)
    IN  IF v = 0 \/ n > Len(b) THEN 0
        ELSE IF b[n] = 125 THEN n + 1
        ELSE IF b[n] = 44 THEN scanMembers(b, skipSpace(b, n + 1))
        ELSE 0

\* json.Valid: one value between optional white space
validJSON(b) ==
    LET e == scanValue(b, skipSpace(b, 1))
    IN  e # 0 /\ skipSpace(b, e) = Len(b) + 1

\* what json.Marshal writes for a valid RawMessage: the value without the
\* white space outside strings, and with <, > and & escaped
RECURSIVE compact(_, _, _)
compact(b, i, inString) ==
    IF i > Len(b) THEN << >>
    ELSE IF b[i] \in {60, 62, 38} THEN escapeU(b[i]) \o compact(b, i + 1, inString)
    ELSE IF inString /\ b[i] = 92 THEN <<92, b[i + 1]>> \o compact(b, i + 2, TRUE)
    ELSE IF b[i] = 34 THEN <<34>> \o compact(b, i + 1, ~inString)
    ELSE IF ~inString /\ isSpace(b[i]) THEN compact(b, i + 1, FALSE)
    ELSE <<b[i]>> \o compact(b, i + 1, inString)

RECURSIVE encodeValue(_, _), encodeFields(_, _, _)
encodeValue(kind, v) ==
    IF kind = "string" THEN quote(v)
    ELSE IF kind = "int" THEN itoa(v)
    ELSE IF kind = "bool" THEN (IF v THEN Lit.true ELSE Lit.false)
    ELSE IF kind = "raw" THEN (IF v.isNil THEN Lit.null ELSE compact(v.bytes, 1, FALSE))
    ELSE <<123>> \o encodeFields(TopicFields, [Name |-> v], 1) \o <<125>>

encodeFields(fields, j, i) ==
    IF i > Len(fields) THEN << >>
    ELSE (IF i > 1 THEN <<44>> ELSE << >>)
         \o quote(fields[i].key) \o <<58>>
         \o encodeValue(fields[i].kind, j[fields[i].name])
         \o encodeFields(fields, j, i + 1)

\* json.Marshal(mJSON): a RawMessage that is not nil has to be valid JSON
marshalFails(j) == ~j.Body.isNil /\ ~validJSON(j.Body.bytes)

jsonMarshal(j) ==
    IF marshalFails(j)
    THEN [err |-> TRUE, bytes |-> << >>]
    ELSE [err |-> FALSE, bytes |-> <<123>> \o encodeFields(JSONFields, j, 1) \o <<125>>]

\* ---- json.Decoder.Decode
\* the UTF-8 encoding of a code point of the basic plane; a surrogate half
\* that stands alone is replaced by U+FFFD (pairs are not in the inputs)
utf8(cp) ==
    IF cp < 128 THEN <<cp>>
    ELSE IF cp < 2048 THEN <<192 + (cp \div 64), 128 + (cp % 64)>>
    ELSE IF cp >= 55296 /\ cp <= 57343 THEN <<239, 191, 189>>
    ELSE <<224 + (cp \div 4096), 128 + ((cp \div 64) % 64), 128 + (cp % 64)>>

hex4(b, i) ==
    4096 * hexVal(b[i]) + 256 * hexVal(b[i + 1]) + 16 * hexVal(b[i + 2]) + hexVal(b[i + 3])

unescapeChar(c) ==
    IF c = 98 THEN 8
    ELSE IF c = 102 THEN 12
    ELSE IF c = 110 THEN 10
    ELSE IF c = 114 THEN 13
    ELSE IF c = 116 THEN 9
    ELSE c

\* the bytes of a valid string literal, from the byte after its opening quote
RECURSIVE unescape(_, _)
unescape(b, i) ==
    IF b[i] = 34 THEN << >>
    ELSE IF b[i] = 92 THEN
        IF b[i + 1] = 117 THEN utf8(hex4(b, i + 2)) \o unescape(b, i + 6)
        ELSE <<unescapeChar(b[i + 1])>> \o unescape(b, i + 2)
    ELSE IF b[i] >= 248 THEN <<239, 191, 189>> \o unescape(b, i + 1)
    ELSE <<b[i]>> \o unescape(b, i + 1)

unquote(val) == unescape(val, 2)

\* the members of a valid object, i the opening quote of its first key
RECURSIVE objectMembers(_, _)
objectMembers(b, i) ==
    LET k == scanString(b, i + 1)
        s == skipSpace(b, skipSpace(b, k) + 1)
        v == scanValue(b, s)
        n == skipSpace(b, v)
        m == [key |-> unquote(SubSeq(b, i, k - 1)), val |-> SubSeq(b, s, v - 1)]
    IN  IF b[n] = 44 THEN <<m>> \o objectMembers(b, skipSpace(b, n + 1)) ELSE <<m>>

members(b, i) ==
    LET j == skipSpace(b, i + 1)
    IN  IF b[j] = 125 THEN << >> ELSE objectMembers(b, j)

isIntLit(val) ==
    LET s == IF val[1] = 45 THEN 2 ELSE 1
    IN  s <= Len(val) /\ \A k \in s..Len(val) : isDigit(val[k])

RECURSIVE atoi(_, _, _)
atoi(val, i, acc) ==
    IF i > Len(val) THEN acc ELSE atoi(val, i + 1, 10 * acc + (val[i] - 48))

parseInt(val) ==
    IF val[1] = 45 THEN 0 - atoi(val, 2, 0) ELSE atoi(val, 1, 0)

\* one value into a field that holds old: null leaves every field but a
\* RawMessage as it is, and RawMessage.UnmarshalJSON copies the bytes of the
\* value whatever they are; a value of the wrong kind is an error
decodeScalar(kind, val, old) ==
    IF kind = "raw" THEN [err |-> FALSE, v |-> RawMessage(val)]
    ELSE IF val = Lit.null THEN [err |-> FALSE, v |-> old]
    ELSE IF kind = "string" THEN
        (IF val[1] = 34 THEN [err |-> FALSE, v |-> unquote(val)]
         ELSE [err |-> TRUE, v |-> old])
    ELSE IF kind = "int" THEN
        (IF isIntLit(val) THEN [err |-> FALSE, v |-> parseInt(val)]
         ELSE [err |-> TRUE, v |-> old])
    ELSE IF val \in {Lit.true, Lit.false} THEN [err |-> FALSE, v |-> val = Lit.true]
    ELSE [err |-> TRUE, v |-> old]

\* the members of an object into Topic, in their order (the keys are
\* compared as written; a member without a field is skipped)
RECURSIVE decodeTopic(_, _)
decodeTopic(ms, acc) ==
    IF ms = << >> THEN acc
    ELSE IF Head(ms).key # TopicFields[1].key THEN decodeTopic(Tail(ms), acc)
    ELSE LET r == decodeScalar(TopicFields[1].kind, Head(ms).val, acc.v)
         IN  decodeTopic(Tail(ms), [err |-> acc.err \/ r.err, v |-> r.v])

decodeValue(kind, val, old) ==
    IF kind # "topic" THEN decodeScalar(kind, val, old)
    ELSE IF val = Lit.null THEN [err |-> FALSE, v |-> old]
    ELSE IF val[1] = 123 THEN decodeTopic(members(val, 1), [err |-> FALSE, v |-> old])
    ELSE [err |-> TRUE, v |-> old]

\* the members of an object into messageJSON, in their order
RECURSIVE decodeMembers(_, _)
decodeMembers(ms, acc) ==
    IF ms = << >> THEN acc
    ELSE LET fs == {i \in 1..Len(JSONFields) : JSONFields[i].key = Head(ms).key}
         IN  IF fs = {} THEN decodeMembers(Tail(ms), acc)
             ELSE LET f == JSONFields[CHOOSE i \in fs : TRUE]
                      r == decodeValue(f.kind, Head(ms).val, acc.j[f.name])
                  IN  decodeMembers(Tail(ms),
                          [err |-> acc.err \/ r.err,
                           j   |-> [acc.j EXCEPT ![f.name] = r.v]])

\* Decode(&mJSON) reads the first value of the input
jsonDecode(b) ==
    LET i == skipSpace(b, 1)
        e == scanValue(b, i)
    IN  IF e = 0 THEN [err |-> TRUE, j |-> ZeroMessageJSON]
        ELSE IF SubSeq(b, i, e - 1) = Lit.null THEN [err |-> FALSE, j |-> ZeroMessageJSON]
        ELSE IF b[i] # 123 THEN [err |-> TRUE, j |-> ZeroMessageJSON]
        ELSE decodeMembers(members(b, i), [err |-> FALSE, j |-> ZeroMessageJSON])

\* Message.Marshall, down to the bytes
MarshallBytes(m) == jsonMarshal(Marshall(m))

\* the decoded messageJSON is bound once and copied field by field
DecodeMessage(b) ==
    CHOOSE d \in {IF r.err THEN [err |-> TRUE, msg |-> Unmarshal(ZeroMessageJSON)]
                  ELSE [err |-> FALSE, msg |-> Unmarshal(r.j)]
                     : r \in {jsonDecode(b)}} : TRUE

\* ---- the binary codec
\* binary.Write of an integer, little endian, w bytes (two's complement)
RECURSIVE littleEndian(_, _)
littleEndian(v, w) ==
    IF w = 0 THEN << >> ELSE <<v % 256>> \o littleEndian(v \div 256, w - 1)

\* binary.Read of an unsigned integer
RECURSIVE unsigned(_, _)
unsigned(bs, i) ==
    IF i > Len(bs) THEN 0 ELSE bs[i] + 256 * unsigned(bs, i + 1)

\* binary.Read of a signed integer
signed(bs) ==
    IF bs[Len(bs)] >= 128
    THEN (0 - 1) - unsigned([k \in 1..Len(bs) |-> 255 - bs[k]], 1)
    ELSE unsigned(bs, 1)

\* the fields in the order they are written, each with the width of its
\* length prefix or of its value
BinaryFields ==
    << [name |-> "id",         kind |-> "string", w |-> 2],
       [name |-> "nextID",     kind |-> "string", w |-> 2],
       [name |-> "mType",      kind |-> "string", w |-> 2],
       [name |-> "user",       kind |-> "string", w |-> 2],
       [name |-> "password",   kind |-> "string", w |-> 2],
       [name |-> "topic",      kind |-> "string", w |-> 2],
       [name |-> "body",       kind |-> "raw",    w |-> 4],
       [name |-> "bodyString", kind |-> "string", w |-> 4],
       [name |-> "timestamp",  kind |-> "int",    w |-> 8],
       [name |-> "ack",        kind |-> "bool",   w |-> 1],
       [name |-> "attempts",   kind |-> "int",    w |-> 4] >>

\* uint16(len(..)) keeps the low 16 bits of the length; a length stays far
\* below the range of uint32
lengthPrefix(n, w) == littleEndian(IF w = 2 THEN n % 65536 ELSE n, w)

RECURSIVE writeFields(_, _)
writeFields(m, i) ==
    IF i > Len(BinaryFields) THEN << >>
    ELSE LET f == BinaryFields[i]
             v == m[f.name]
         IN  (IF f.kind = "string" THEN lengthPrefix(Len(v), f.w) \o v
              ELSE IF f.kind = "raw" THEN lengthPrefix(Len(v.bytes), f.w) \o v.bytes
              ELSE IF f.kind = "bool" THEN <<IF v THEN 1 ELSE 0>>
              ELSE littleEndian(v, f.w))
             \o writeFields(m, i + 1)

MarshalBinary(m) == [err |-> FALSE, bytes |-> writeFields(m, 1)]

\* the fields are read in turn into m; a read past the end of the data
\* returns the error and leaves the fields read so far in m. A length with
\* the top bit of four bytes set is past the end of any data.
RECURSIVE readFields(_, _, _, _)
readFields(data, pos, i, m) ==
    IF i > Len(BinaryFields) THEN [err |-> FALSE, msg |-> m]
    ELSE LET f  == BinaryFields[i]
             q  == pos + f.w
             bs == SubSeq(data, pos, q - 1)
         IN  IF q - 1 > Len(data) THEN [err |-> TRUE, msg |-> m]
             ELSE IF f.kind = "bool"
                  THEN readFields(data, q, i + 1, [m EXCEPT ![f.name] = bs[1] = 1])
             ELSE IF f.kind = "int"
                  THEN readFields(data, q, i + 1, [m EXCEPT ![f.name] = signed(bs)])
             ELSE IF f.w = 4 /\ bs[4] >= 128 THEN [err |-> TRUE, msg |-> m]
             ELSE LET n == unsigned(bs, 1)
                      v == SubSeq(data, q, q + n - 1)
                  IN  IF q + n - 1 > Len(data) THEN [err |-> TRUE, msg |-> m]
                      ELSE readFields(data, q + n, i + 1,
                               [m EXCEPT ![f.name] =
                                    IF f.kind = "raw" THEN RawMessage(v) ELSE v])

UnmarshalBinary(data, m) == readFields(data, 1, 1, m)

\* ---- the codecs as a state machine: a message, its encoding, the decoding
\* the messages: strings with a quote and a backslash, with < and a line
\* feed, with a byte that is not UTF-8; a body that is nil, empty, compact
\* JSON, JSON with white space and <, or not JSON
CodecMessages ==
    [id         : {<<97>>},
     nextID     : {<< >>},
     mType      : {<<65, 67, 75>>},
     user       : {<< >>, <<117, 34, 92>>},
     password   : {<< >>},
     topic      : {<<116>>, <<60, 116, 10>>},
     body       : {NilBody, RawMessage(<< >>), RawMessage(<<123, 125>>),
                   RawMessage(<<34, 97, 34>>), RawMessage(<<120>>),
                   RawMessage(<<123, 32, 34, 97, 34, 32, 58, 32, 91, 49, 44,
                                32, 34, 60, 34, 93, 32, 125>>)},
     bodyString : {<< >>, <<255>>},
     timestamp  : {0, 1700000000},
     ack        : BOOLEAN,
     attempts   : {0, 3, 0 - 1}]

CodecStep(op, format, input, r) ==
    [op |-> op, format |-> format, input |-> input, payload |-> r.bytes,
     err |-> r.err, msg |-> r.msg]

InitCodec ==
    /\ InitTasks
    /\ handler = [c \in Conns |-> << >>]
    /\ runner = [c \in Conns |-> RunnerOff]
    /\ User = ""
    /\ Password = ""
    /\ authed = {}
    /\ firstFormat = EmptyMap
    /\ clients = EmptyMap
    /\ connState = [c \in Conns |-> "idle"]
    /\ DB = EmptyMap
    /\ sentMessages = EmptyMap
    /\ inbox = [c \in Conns |-> {}]
    /\ published = {}
    /\ cycles = EmptyMap
    /\ \E m \in CodecMessages :
          last = CodecStep("message", 0, m, [err |-> FALSE, bytes |-> << >>, msg |-> m])

\* writeMessageWithFormat: the payload of a frame in the given format
encodeFrame(format, m) ==
    IF format = FormatJSON THEN MarshallBytes(m) ELSE MarshalBinary(m)

Encode(format) ==
    \E r \in {encodeFrame(format, last.input)} :
        /\ last.op = "message"
        /\ last' = CodecStep("encode", format, last.input,
                             [err |-> r.err, bytes |-> r.bytes, msg |-> last.input])
        /\ UNCHANGED <<clients, connState, DB, sentMessages, inbox, published, cycles>>
        /\ UNCHANGED <<config, start, tasks, authed, firstFormat, handler, runner>>

\* handleMessage and the consumers of the library decode the payload by the
\* format flag of the frame
decodeFrame(frame) ==
    IF frame.format = FormatJSON THEN DecodeMessage(frame.payload)
    ELSE UnmarshalBinary(frame.payload, Unmarshal(ZeroMessageJSON))

Decode(format) ==
    /\ last.op = "encode"
    /\ last.format = format
    /\ ~last.err
    /\ \E r \in {decodeFrame([format |-> format, payload |-> last.payload])} :
          last' = CodecStep("decode", format, last.input,
                            [err |-> r.err, bytes |-> last.payload, msg |-> r.msg])
    /\ UNCHANGED <<clients, connState, DB, sentMessages, inbox, published, cycles>>
    /\ UNCHANGED <<config, start, tasks, authed, firstFormat, handler, runner>>

NextCodec == \E format \in Formats : Encode(format) \/ Decode(format)

SpecCodec == InitCodec /\ [][NextCodec]_vars

\* --------------------------------------------------- the end of a session
\* connState of a session whose stream has ended or failed while its handler
\* is still in the read loop: "gone" (the next read is io.EOF at the format
\* flag), "cut" (the peer closed in the middle of a frame), "reset" (the
\* next read fails with a connection reset) and "shut" (doLogin has closed
\* the connection on the server side)
Ended == {"gone", "cut", "reset", "shut"}

\* the peer closes after the format flag or a part of the length or payload
PeerCloseMidFrame(c) ==
    /\ connState[c] = "open"
    /\ connState' = [connState EXCEPT ![c] = "cut"]
    /\ inbox' = [inbox EXCEPT ![c] = {}]
    /\ last' = Record("close", 0, ZeroMessage, NoWrites, FALSE, << >>)
    /\ UNCHANGED <<clients, DB, sentMessages, published, cycles>>
    /\ UNCHANGED <<config, start, tasks, authed, firstFormat, handler, runner>>

\* the peer resets the connection
PeerReset(c) ==
    /\ connState[c] = "open"
    /\ connState' = [connState EXCEPT ![c] = "reset"]
    /\ inbox' = [inbox EXCEPT ![c] = {}]
    /\ last' = Record("close", 0, ZeroMessage, NoWrites, FALSE, << >>)
    /\ UNCHANGED <<clients, DB, sentMessages, published, cycles>>
    /\ UNCHANGED <<config, start, tasks, authed, firstFormat, handler, runner>>

\* handleConnections, a read error that is not io.EOF (io.ErrUnexpectedEOF
\* in the length, any error in the payload, a reset): it is logged and the
\* loop goes on. The stream of a closed or reset socket is at its end after
\* that, so the next read is io.EOF at the format flag.
HandleReadError(c) ==
    /\ connState[c] \in {"cut", "reset"}
    /\ connState' = [connState EXCEPT ![c] = "gone"]
    /\ last' = Record("readerr", c, ZeroMessage, NoWrites, TRUE, << >>)
    /\ UNCHANGED <<clients, DB, sentMessages, inbox, published, cycles>>
    /\ UNCHANGED <<config, start, tasks, authed, firstFormat, handler, runner>>

\* handleConnections on a connection the server has closed itself: every
\* read fails with net.ErrClosed, which is not io.EOF; it is logged and the
\* loop goes on, without disconnect
HandleClosedRead(c) ==
    /\ connState[c] = "shut"
    /\ last' = Record("readerr", c, ZeroMessage, NoWrites, TRUE, << >>)
    /\ UNCHANGED <<clients, connState, DB, sentMessages, inbox, published, cycles>>
    /\ UNCHANGED <<config, start, tasks, authed, firstFormat, handler, runner>>

\* "AUTH"
MessageTypeAuthBytes == <<65, 85, 84, 72>>

\* AUTH frames in both formats, without a body and with the body {}
AuthFrames ==
    LET ms == {[Unmarshal(ZeroMessageJSON) EXCEPT !.mType = MessageTypeAuthBytes,
                                                 !.body = body]
                  : body \in {NilBody, RawMessage(<<123, 125>>)}}
    IN  {[format |-> FormatJSON, payload |-> MarshallBytes(m).bytes] : m \in ms}
        \cup {[format |-> FormatBinary, payload |-> MarshalBinary(m).bytes] : m \in ms}

\* handleMessage, case AUTH, from the bytes of the frame: doLogin encodes the
\* reply with Marshall and closes the connection when that fails; the
\* handler stays in its loop. The step is observed by the types of the
\* frame and of the reply.
HandleAuthFrame(c, frame) ==
    \E r \in {decodeFrame(frame)} :
    \E reply \in {doLogin(User, Password, r.msg)} :
    \E fails \in {marshalFails(Marshall(reply))} :
        /\ connState[c] = "open"
        /\ ~r.err
        /\ r.msg.mType = MessageTypeAuthBytes
        /\ connState' = IF fails THEN [connState EXCEPT ![c] = "shut"] ELSE connState
        /\ authed' = IF reply.mType = MessageAuthSuccess THEN authed \cup {c} ELSE authed
        /\ last' = Record("auth", c, [ZeroMessage EXCEPT !.mType = MessageTypeAuth],
                          IF fails THEN NoWrites
                          ELSE <<[conn |-> c, format |-> Unframed,
                                  msg |-> [ZeroMessage EXCEPT !.mType = reply.mType]]>>,
                          fails, << >>)
        /\ UNCHANGED <<clients, DB, sentMessages, inbox, published, cycles>>
        /\ UNCHANGED <<config, start, tasks, firstFormat, handler, runner>>

NextLive ==
    \/ \E c \in Conns : Accept(c)
    \/ \E c \in Conns, topic \in TopicNames : HandleNewSub(c, topic)
    \/ \E c \in Conns, frame \in AuthFrames : HandleAuthFrame(c, frame)
    \/ \E c \in Conns : PeerClose(c)
    \/ \E c \in Conns : PeerCloseMidFrame(c)
    \/ \E c \in Conns : PeerReset(c)
    \/ \E c \in Conns : HandleReadError(c)
    \/ \E c \in Conns : HandleClosedRead(c)
    \/ \E c \in Conns : HandleEOF(c)

\* each handler is a goroutine of its own and blocks in nothing but the read
HandlerRuns ==
    \A c \in Conns : /\ WF_vars(HandleReadError(c))
                     /\ WF_vars(HandleClosedRead(c))
                     /\ WF_vars(HandleEOF(c))

SpecLive == Init /\ [][NextLive]_vars /\ HandlerRuns

\* ------------------------------------------------------- ids given to save
\* NEW_MESSAGE frames written by hand with the ids "false-"+u, "false"+u, u
\* and the empty id
SaveIds == UNION {{generateID(MsgPrefixFalse, <<u>>), MsgPrefixFalse \o <<u>>, <<u>>} : u \in Uuids}
               \cup {<< >>}

SaveMessages ==
    {[PublishMessage(u, "t", body) EXCEPT !.id = id] :
        u \in Uuids, body \in Bodies, id \in SaveIds}

NextSave ==
    \/ \E c \in Conns : Accept(c)
    \/ \E c \in Conns, topic \in TopicNames : HandleNewSub(c, topic)
    \/ \E c \in Conns, m \in SaveMessages, failAt \in FailPoints : RawNewMessage(c, m, failAt)

SpecSave == Init /\ [][NextSave]_vars

\* ---------------------------------------------------------- the accept loop
\* Server.Close closes the listener
Close ==
    /\ listener = "open"
    /\ listener' = "closed"
    /\ last' = Record("shutdown", 0, ZeroMessage, NoWrites, FALSE, << >>)
    /\ UNCHANGED <<clients, connState, DB, sentMessages, inbox, published, cycles>>
    /\ UNCHANGED <<config, acceptor, tasks, authed, firstFormat, handler, runner>>

\* l.Accept on the closed listener returns an error, which is logged
AcceptError ==
    /\ listener = "closed"
    /\ acceptor = "accept"
    /\ acceptor' = "failed"
    /\ last' = Record("accepterr", 0, ZeroMessage, NoWrites, TRUE, << >>)
    /\ UNCHANGED <<clients, connState, DB, sentMessages, inbox, published, cycles>>
    /\ UNCHANGED <<config, listener, tasks, authed, firstFormat, handler, runner>>

\* continue: the loop calls Accept again
AcceptContinue ==
    /\ acceptor = "failed"
    /\ acceptor' = "accept"
    /\ last' = Record("continue", 0, ZeroMessage, NoWrites, FALSE, << >>)
    /\ UNCHANGED <<clients, connState, DB, sentMessages, inbox, published, cycles>>
    /\ UNCHANGED <<config, listener, tasks, authed, firstFormat, handler, runner>>

NextStart ==
    \/ \E c \in Conns : Accept(c)
    \/ \E c \in Conns, topic \in TopicNames : HandleNewSub(c, topic)
    \/ \E c \in Conns : PeerClose(c)
    \/ \E c \in Conns : HandleEOF(c)
    \/ Close
    \/ AcceptError
    \/ AcceptContinue

\* the goroutine that called Start keeps running
StartRuns == WF_vars(AcceptError) /\ WF_vars(AcceptContinue)

SpecStart == Init /\ [][NextStart]_vars /\ StartRuns

\* ------------------------- sendNewMessage and disconnect, statement by statement
\* The handlers are goroutines without a lock: between two statements of one
\* of them any other may run. A call of sendNewMessage is at the head of the
\* range loop ("next"), at the write of a part ("flag", "length", "payload"),
\* at the save after the payload ("save") or at one of the two statements of
\* incSentMessages ("lookup", "add").
PartRank(p) == CASE p = "flag" -> 1 [] p = "length" -> 2 [] OTHER -> 3

\* the write of part p fails when the connection fails at p or failed before
writeFails(cs, conn, failAt, p) ==
    LET w == writeOutcome(cs, conn, failAt)
    IN  w # "ok" /\ PartRank(w) <= PartRank(p)

nextPart(p) == CASE p = "flag" -> "length" [] p = "length" -> "payload" [] OTHER -> "save"

\* append(s.clients[topic], row): a list that fills its array moves to a new
\* array of twice the capacity, of capacity 1 for the nil list; otherwise the
\* row is stored in place behind the list
capOf(cp, topic) == IF topic \in DOMAIN cp THEN cp[topic] ELSE 0
grow(cap) == IF cap = 0 THEN 1 ELSE 2 * cap

\* the index of the first row of conn in the list, 0 without one
rowOf(cls, conn) ==
    IF \E i \in 1..Len(cls) : cls[i].conn = conn
    THEN CHOOSE i \in 1..Len(cls) :
             /\ cls[i].conn = conn
             /\ \A j \in 1..(i - 1) : cls[j].conn # conn
    ELSE 0

\* a list read before the change, over the same array: what it shows after
\* append(clients[:i], clients[i+1:]...) has moved the rows behind i down
shiftView(view, cls, i) ==
    [j \in 1..Len(view) |-> IF j >= i /\ j < Len(cls) THEN cls[j + 1] ELSE view[j]]

\* and after a row was stored in place at index k
storeView(view, k, row) == IF k <= Len(view) THEN [view EXCEPT ![k] = row] ELSE view

\* the calls of sendNewMessage that range over the array of the topic's list
sharing(call, topic) == call.pc # "idle" /\ call.shared /\ call.msg.topic = topic

\* handleConnections handles one frame at a time
handlerIdle(c) == sending[c].pc = "idle" /\ leaving[c].pc = "off"

\* handleMessage, case NEW_SUB
SubscribeRow(c, topic) ==
    LET cls     == lookupClients(clients, topic)
        cap     == capOf(caps, topic)
        inPlace == Len(cls) < cap
        row     == [conn |-> c, Format |-> defaultFormat(c)]
    IN  /\ connState[c] = "open"
        /\ handlerIdle(c)
        /\ Len(cls) < MaxSubs
        /\ clients' = addNewSubscriber(clients, c, topic, defaultFormat(c))
        /\ caps' = Put(caps, topic, IF inPlace THEN cap ELSE grow(cap))
        /\ sending' = [d \in Conns |->
                          IF ~sharing(sending[d], topic) THEN sending[d]
                          ELSE IF inPlace
                          THEN [sending[d] EXCEPT !.cls = storeView(@, Len(cls) + 1, row)]
                          ELSE [sending[d] EXCEPT !.shared = FALSE]]
        /\ firstFormat' = IF c \in DOMAIN firstFormat THEN firstFormat
                          ELSE Put(firstFormat, c, defaultFormat(c))
        /\ last' = Record("sub", c, [ZeroMessage EXCEPT !.topic = topic], NoWrites, FALSE, << >>)
        /\ UNCHANGED <<connState, DB, sentMessages, inbox, published, cycles>>
        /\ UNCHANGED <<config, start, wire, leaving, authed, handler, runner>>

\* clients := s.clients[message.Topic()]
topicList(cl, message) == lookupClients(cl, message.topic)

\* handleMessage, case NEW_MESSAGE: sendNewMessage reads the list of the topic
\* and returns when it is empty
SendStart(c, u, topic, body) ==
    LET message == PublishMessage(u, topic, body)
        cls     == topicList(clients, message)
    IN  /\ connState[c] = "open"
        /\ handlerIdle(c)
        /\ u \notin published
        /\ published' = published \cup {u}
        /\ sending' = [sending EXCEPT ![c] =
                           IF Len(cls) = 0 THEN NotSending
                           ELSE [NotSending EXCEPT !.pc = "next", !.msg = message,
                                                   !.cls = cls, !.i = 1,
                                                   !.shared = TRUE, !.started = cls]]
        /\ last' = Record("dispatch", c, message, NoWrites, FALSE, << >>)
        /\ UNCHANGED <<clients, connState, DB, sentMessages, inbox, cycles>>
        /\ UNCHANGED <<config, start, wire, caps, leaving, authed, firstFormat, handler, runner>>

\* for _, client := range clients: the loop ends behind the last index of the
\* list it was given, otherwise client is a copy of the row the array holds
\* at the index now
NextRow(c) ==
    LET call == sending[c]
    IN  /\ call.pc = "next"
        /\ sending' = [sending EXCEPT ![c] =
                           IF call.i > Len(call.cls) THEN NotSending
                           ELSE [call EXCEPT !.pc = "flag", !.client = call.cls[call.i]]]
        /\ last' = Record("row", c, call.msg, NoWrites, FALSE, << >>)
        /\ UNCHANGED <<clients, connState, DB, sentMessages, inbox, published, cycles>>
        /\ UNCHANGED <<config, start, wire, caps, leaving, authed, firstFormat, handler, runner>>

\* one of the three writes of the frame to the client of this turn
WritePart(c, failAt) ==
    LET call   == sending[c]
        client == call.client
        fails  == writeFails(connState, client.conn, failAt, call.pc)
    IN  /\ call.pc \in FailPoints
        /\ wire' = IF fails THEN wire
                   ELSE [wire EXCEPT ![client.conn] =
                            Append(@, [part |-> call.pc, msg |-> call.msg])]
        /\ DB' = IF fails /\ call.pc = "payload"
                 THEN saveUnsentMessage(DB, call.msg) ELSE DB
        /\ sending' = [sending EXCEPT ![c] =
                           IF fails THEN NotSending
                           ELSE [call EXCEPT !.pc = nextPart(call.pc)]]
        /\ last' = Record("part", c, call.msg, NoWrites, fails, << >>)
        /\ UNCHANGED <<clients, connState, sentMessages, inbox, published, cycles>>
        /\ UNCHANGED <<config, start, caps, leaving, authed, firstFormat, handler, runner>>

\* if message.attempts <= 1 { s.save(message, client.Format) }
SaveStep(c) ==
    /\ sending[c].pc = "save"
    /\ DB' = saveAfterWrite(DB, sending[c].msg)
    /\ sending' = [sending EXCEPT ![c].pc = "lookup"]
    /\ last' = Record("save", c, sending[c].msg, NoWrites, FALSE, << >>)
    /\ UNCHANGED <<clients, connState, sentMessages, inbox, published, cycles>>
    /\ UNCHANGED <<config, start, wire, caps, leaving, authed, firstFormat, handler, runner>>

\* incSentMessages: val, ok := s.sentMessages[topic]
IncLookup(c) ==
    /\ sending[c].pc = "lookup"
    /\ sending' = [sending EXCEPT ![c].pc = "add",
                                  ![c].ok = sending[c].msg.topic \in DOMAIN sentMessages]
    /\ last' = Record("lookup", c, sending[c].msg, NoWrites, FALSE, << >>)
    /\ UNCHANGED <<clients, connState, DB, sentMessages, inbox, published, cycles>>
    /\ UNCHANGED <<config, start, wire, caps, leaving, authed, firstFormat, handler, runner>>

\* incSentMessages: val.Add(1) when the counter was there, otherwise a new
\* counter with the value 1 is stored in the map; then the loop goes on
IncStore(c) ==
    LET call == sending[c]
    IN  /\ call.pc = "add"
        /\ sentMessages' = IF call.ok THEN [sentMessages EXCEPT ![call.msg.topic] = @ + 1]
                           ELSE Put(sentMessages, call.msg.topic, 1)
        /\ sending' = [sending EXCEPT ![c] = [call EXCEPT !.pc = "next", !.i = @ + 1]]
        /\ last' = Record("inc", c, call.msg, NoWrites, FALSE, << >>)
        /\ UNCHANGED <<clients, connState, DB, inbox, published, cycles>>
        /\ UNCHANGED <<config, start, wire, caps, leaving, authed, firstFormat, handler, runner>>

\* the frames a consumer has read whole from its socket
framesRead(w) == {w[k].msg : k \in {j \in 1..Len(w) : w[j].part = "payload"}}

\* a consumer using the client library ACKs a frame it has read
AckFrame(c, msg) ==
    /\ handlerIdle(c)
    /\ msg \in framesRead(wire[c])
    /\ inbox' = inbox
    /\ Ack(c, updateMessage(msg))

\* handleConnections reads io.EOF and calls disconnect: the range over the map
LeaveStart(c) ==
    /\ connState[c] = "gone"
    /\ handlerIdle(c)
    /\ leaving' = [leaving EXCEPT ![c] = [pc |-> "range", topics |-> DOMAIN clients]]
    /\ last' = Record("eof", c, ZeroMessage, NoWrites, FALSE, << >>)
    /\ UNCHANGED <<clients, connState, DB, sentMessages, inbox, published, cycles>>
    /\ UNCHANGED <<config, start, sending, wire, caps, authed, firstFormat, handler, runner>>

\* disconnect, the body of the range loop for the topic t: the first row of
\* the connection is removed in place, and the topic is deleted when its list
\* is empty
LeaveTopic(c, t) ==
    LET cls   == lookupClients(clients, t)
        i     == rowOf(cls, c)
        after == disconnectTopic(cls, c)
    IN  /\ leaving[c].pc = "range"
        /\ t \in leaving[c].topics
        /\ clients' = IF t \notin DOMAIN clients THEN clients
                      ELSE IF Len(after) = 0 THEN Del(clients, t)
                      ELSE [clients EXCEPT ![t] = after]
        /\ caps' = IF Len(after) = 0 THEN Del(caps, t) ELSE caps
        /\ sending' = [d \in Conns |->
                          IF i > 0 /\ sharing(sending[d], t)
                          THEN [sending[d] EXCEPT !.cls = shiftView(@, cls, i)]
                          ELSE sending[d]]
        /\ leaving' = [leaving EXCEPT ![c].topics = @ \ {t}]
        /\ last' = Record("remove", c, [ZeroMessage EXCEPT !.topic = t], NoWrites, FALSE, << >>)
        /\ UNCHANGED <<connState, DB, sentMessages, inbox, published, cycles>>
        /\ UNCHANGED <<config, start, wire, authed, firstFormat, handler, runner>>

\* disconnect: conn.Close() after the range loop
LeaveClose(c) ==
    /\ leaving[c].pc = "range"
    /\ leaving[c].topics = {}
    /\ leaving' = [leaving EXCEPT ![c] = NotLeaving]
    /\ connState' = [connState EXCEPT ![c] = "closed"]
    /\ last' = Record("closed", c, ZeroMessage, NoWrites, FALSE, << >>)
    /\ UNCHANGED <<clients, DB, sentMessages, inbox, published, cycles>>
    /\ UNCHANGED <<config, start, sending, wire, caps, authed, firstFormat, handler, runner>>

\* two publishers at once, on one topic
NextSend ==
    \/ \E c \in Conns : Accept(c)
    \/ \E c \in Conns : SubscribeRow(c, "t")
    \/ \E c \in Conns, u \in OrderUuids, body \in Bodies : SendStart(c, u, "t", body)
    \/ \E c \in Conns : NextRow(c)
    \/ \E c \in Conns, failAt \in FailPoints : WritePart(c, failAt)
    \/ \E c \in Conns : SaveStep(c)
    \/ \E c \in Conns : IncLookup(c)
    \/ \E c \in Conns : IncStore(c)

SpecSend == Init /\ [][NextSend]_vars

\* a publisher and the consumers' ACKs
NextAckSend ==
    \/ \E c \in Conns : Accept(c)
    \/ \E c \in Conns, topic \in TopicNames : SubscribeRow(c, topic)
    \/ \E c \in Conns, u \in Uuids, topic \in TopicNames, body \in Bodies :
          SendStart(c, u, topic, body)
    \/ \E c \in Conns : NextRow(c)
    \/ \E c \in Conns, failAt \in FailPoints : WritePart(c, failAt)
    \/ \E c \in Conns : SaveStep(c)
    \/ \E c \in Conns : IncLookup(c)
    \/ \E c \in Conns : IncStore(c)
    \/ \E c \in Conns : \E msg \in framesRead(wire[c]) : AckFrame(c, msg)
    \/ \E c \in Conns : PeerClose(c)

SpecAckSend == Init /\ [][NextAckSend]_vars

\* a publisher and the sessions that end
NextLeave ==
    \/ \E c \in Conns : Accept(c)
    \/ \E c \in Conns, topic \in TopicNames : SubscribeRow(c, topic)
    \/ \E c \in Conns, u \in Uuids, topic \in TopicNames, body \in Bodies :
          SendStart(c, u, topic, body)
    \/ \E c \in Conns : NextRow(c)
    \/ \E c \in Conns, failAt \in FailPoints : WritePart(c, failAt)
    \/ \E c \in Conns : SaveStep(c)
    \/ \E c \in Conns : IncLookup(c)
    \/ \E c \in Conns : IncStore(c)
    \/ \E c \in Conns : PeerClose(c)
    \/ \E c \in Conns : LeaveStart(c)
    \/ \E c \in Conns, t \in TopicNames : LeaveTopic(c, t)
    \/ \E c \in Conns : LeaveClose(c)

SpecLeave == Init /\ [][NextLeave]_vars

\* handleMessage, case AUTH, on the handler of the session
AuthFrame(c, message) ==
    /\ handlerIdle(c)
    /\ HandleAuth(c, message)

\* Connect with credentials: the AUTH frame is the first frame of the session
\* and the client has its connection when the reply has come
ConnectAuth(c, u) ==
    /\ c \notin authed
    /\ AuthFrame(c, AuthMessage(u, User, Password))

ClientSubscribe(c, topic) ==
    /\ c \in authed
    /\ SubscribeRow(c, topic)

ClientPublish(c, u, topic, body) ==
    /\ c \in authed
    /\ SendStart(c, u, topic, body)

\* the pass of the scheduler, up to the first one that writes a frame
TickOnce(failAt) ==
    /\ cycles = EmptyMap
    /\ Tick(failAt)

\* clients of the library that publish to "t", the sessions that end, and
\* the scheduler
NextRoute ==
    \/ \E c \in Conns : Accept(c)
    \/ \E c \in Conns, u \in Uuids : ConnectAuth(c, u)
    \/ \E c \in Conns, topic \in TopicNames : ClientSubscribe(c, topic)
    \/ \E c \in Conns, u \in Uuids, body \in Bodies : ClientPublish(c, u, "t", body)
    \/ \E c \in Conns : NextRow(c)
    \/ \E c \in Conns, failAt \in FailPoints : WritePart(c, failAt)
    \/ \E c \in Conns : SaveStep(c)
    \/ \E c \in Conns : IncLookup(c)
    \/ \E c \in Conns : IncStore(c)
    \/ \E c \in Conns : PeerClose(c)
    \/ \E c \in Conns : LeaveStart(c)
    \/ \E c \in Conns, t \in TopicNames : LeaveTopic(c, t)
    \/ \E c \in Conns : LeaveClose(c)
    \/ \E failAt \in FailPoints : TickOnce(failAt)

SpecRoute == Init /\ [][NextRoute]_vars

\* ------------------------------------------------------------------- claims
FalseDash == generateID(MsgPrefixFalse, << >>)

Subscribers(cl, topic) ==
    {lookupClients(cl, topic)[i].conn : i \in 1..Len(lookupClients(cl, topic))}

AllOpen(cl, cs, topic) == \A c \in Subscribers(cl, topic) : cs[c] = "open"

FramesTo(writes, c) == {i \in 1..Len(writes) : writes[i].conn = c}

\* C1: a publish to a topic with at least one subscriber, all writes
\* succeeding, writes exactly one frame carrying msg to each session of the
\* topic's subscriber list and no frame to any other session.
C1_OneFramePerSubscriber ==
    [][(/\ last'.op = "publish"
        /\ Len(lookupClients(clients, last'.msg.topic)) >= 1
        /\ AllOpen(clients, connState, last'.msg.topic))
       => \A c \in Conns :
            /\ \A i \in FramesTo(last'.writes, c) : last'.writes[i].msg = last'.msg
            /\ Cardinality(FramesTo(last'.writes, c)) =
                 IF c \in Subscribers(clients, last'.msg.topic) THEN 1 ELSE 0]_vars

\* C2: a publish (by a client or by the scheduler) to a topic that is
\* unknown or has no subscriber writes nothing and leaves the store as it was.
C2_PublishWithoutSubscribersDropped ==
    [][/\ (last'.op = "publish" /\ Len(lookupClients(clients, last'.msg.topic)) = 0)
          => (last'.writes = NoWrites /\ DB' = DB /\ inbox' = inbox)
       /\ (/\ last'.op = "tick"
           /\ \A i \in 1..Len(last'.scanned) :
                Len(lookupClients(clients, last'.scanned[i].topic)) = 0)
          => (last'.writes = NoWrites /\ DB' = DB /\ inbox' = inbox)]_vars

C2_Witness ==
    /\ last.op = "publish"
    /\ last.msg.topic \in DOMAIN clients
    /\ clients[last.msg.topic] = << >>
    /\ DB = EmptyMap

C4_PromoteAckMovesKey ==
    (/\ last.op = "ack"
     /\ ~last.err
     /\ last.msg.id = generateID(MsgPrefixFalse, last.msg.nextID))
    => /\ last.msg.id \notin DOMAIN DB
       /\ last.msg.nextID \in DOMAIN DB
       /\ DB[last.msg.nextID].ACK = TRUE
       /\ DB[last.msg.nextID].ID = last.msg.nextID

C4_Witness ==
    /\ last.op = "ack"
    /\ ~last.err
    /\ last.found
    /\ last.msg.id = generateID(MsgPrefixFalse, last.msg.nextID)
    /\ last.msg.nextID \in DOMAIN DB


\* C5: in every reachable state, whatever frames the clients send, a store
\* key starting with "false-" holds a message with ack = false and every
\* other key holds a message with ack = true.
C5_KeyspaceMatchesAck ==
    \A k \in DOMAIN DB : DB[k].ACK = ~HasPrefix(k, FalseDash)

Pending(db) == {k \in DOMAIN db : HasPrefix(k, FalseDash)}

\* C6: a tick re-sends every entry stored under a "false-" key with
\* attempts <= 3 to the connected subscribers of its topic, in a frame that
\* carries the id, next_id, topic and body of the stored entry.
C6_RedeliveryCarriesStoredMessage ==
    [][last'.op = "tick"
       => \A k \in Pending(DB) :
            (/\ DB[k].Attempts <= ScanMaxAttempts
             /\ AllOpen(clients, connState, DB[k].Topic))
            => \A c \in Subscribers(clients, DB[k].Topic) :
                 \E i \in FramesTo(last'.writes, c) :
                    /\ last'.writes[i].msg.id = DB[k].ID
                    /\ last'.writes[i].msg.nextID = DB[k].NextID
                    /\ last'.writes[i].msg.topic = DB[k].Topic
                    /\ last'.writes[i].msg.body = DB[k].Body]_vars

\* C7: the broker makes at most three send cycles (the publish and the
\* scheduler's redeliveries) for a message that stays unacknowledged.
C7_AtMostThreeSendCycles ==
    \A k \in Pending(DB) : k \in DOMAIN cycles => cycles[k] <= ScanMaxAttempts

NoneOpen(cl, cs) == \A t \in DOMAIN cl : \A c \in Subscribers(cl, t) : cs[c] # "open"

\* C8: while the subscribers of a stored message are gone, so that every
\* write fails, the attempts stored under its "false-" key never exceed 3 and
\* each tick moves them towards 3 (a tick that leaves them below 3 unchanged
\* repeats for ever, and 3 is never reached).
C8_FailedRedeliveryCountsToThree ==
    [][last'.op = "tick"
       => \A k \in Pending(DB) :
            (/\ Subscribers(clients, DB[k].Topic) # {}
             /\ NoneOpen(clients, connState))
            => /\ k \in DOMAIN DB'
               /\ DB'[k].Attempts <= ScanMaxAttempts
               /\ DB[k].Attempts < ScanMaxAttempts => DB'[k].Attempts > DB[k].Attempts]_vars

MaxOf(S) == CHOOSE x \in S : \A y \in S : y <= x

\* the attempts the store records for the logical message next_id = n
Recorded(db, n) == {db[k].Attempts : k \in {x \in DOMAIN db : db[x].NextID = n}}

\* C10: the attempts recorded in the store for a logical message never
\* decrease, whatever the operation (publish, failed delivery, redelivery,
\* the ACK the client library sends back).
C10_AttemptsNeverDecrease ==
    [][\A u \in Uuids :
         (Recorded(DB, <<u>>) # {} /\ Recorded(DB', <<u>>) # {})
         => MaxOf(Recorded(DB', <<u>>)) >= MaxOf(Recorded(DB, <<u>>))]_vars


\* C11: the scan returns exactly the stored entries whose key has prefix
\* "false-" and whose stored attempts are at most 3 (none for an empty
\* store); each returned message is the stored one with attempts plus 1.
PendingUpTo(db, n) == {k \in Pending(db) : db[k].Attempts <= n}

C11_ScanReturnsStoredPending ==
    [][last'.op = "tick" =>
          /\ Len(last'.scanned) = Cardinality(PendingUpTo(DB, ScanMaxAttempts))
          /\ {last'.scanned[i] : i \in 1..Len(last'.scanned)}
                = {IncAttempts(Unmarshal(DB[k])) : k \in PendingUpTo(DB, ScanMaxAttempts)}]_vars

\* C12: in every reachable state a topic's subscriber list holds a given
\* session at most once, also after repeated NEW_SUB for the same topic.
C12_NoDuplicateSubscribers ==
    \A t \in DOMAIN clients : \A i, j \in 1..Len(clients[t]) :
        clients[t][i].conn = clients[t][j].conn => i = j

\* C13: after disconnect(session) the session is in no topic's subscriber
\* list, whatever NEW_SUB frames it sent before.
C13_DisconnectRemovesSession ==
    [][last'.op = "eof" =>
          \A t \in DOMAIN clients' : last'.conn \notin Subscribers(clients', t)]_vars

\* C14: when a disconnect removes the last subscriber of a topic, the
\* registry afterwards has no entry for that topic.
C14_EmptiedTopicDeleted ==
    [][last'.op = "eof" =>
          \A t \in DOMAIN clients :
              (Len(clients[t]) = 1 /\ clients[t][1].conn = last'.conn)
                  => t \notin DOMAIN clients']_vars

C14_Witness ==
    /\ last.op = "eof"
    /\ last.emptied # {}
    /\ \A t \in last.emptied : t \notin DOMAIN clients

\* C15: NEW_TOPIC for a topic that already exists leaves its subscriber
\* list unchanged, so its subscribers still receive later publishes.
C15_CreateTopicKeepsSubscribers ==
    [][(last'.op = "topic" /\ last'.msg.topic \in DOMAIN clients) =>
          (/\ last'.msg.topic \in DOMAIN clients'
           /\ clients'[last'.msg.topic] = clients[last'.msg.topic])]_vars


C17_UnauthenticatedNotDispatched ==
    [][(/\ needAuth(User, Password)
        /\ last'.op \in {"topic", "sub", "publish", "ack"}
        /\ last'.conn \notin authed) =>
          (/\ clients' = clients
           /\ DB' = DB
           /\ connState'[last'.conn] = "closed")]_vars

\* C18: an AUTH frame with wrong credentials on a broker with credentials
\* gets an AUTH_FAILED reply and the session is then closed.
C18_AuthFailedCloses ==
    [][(/\ last'.op = "auth"
        /\ needAuth(User, Password)
        /\ ~validateAuth(User, Password, last'.msg)) =>
          (/\ last'.writes[1].msg.mType = MessageAuthFailed
           /\ connState'[last'.conn] = "closed")]_vars

\* C19: every frame delivered to a session carries the format the session
\* registered with on its first NEW_SUB.
C19_DeliveryUsesFirstFormat ==
    [][last'.op \in {"publish", "tick"} =>
          \A i \in 1..Len(last'.writes) :
              /\ last'.writes[i].conn \in DOMAIN firstFormat
              /\ last'.writes[i].format = firstFormat[last'.writes[i].conn]]_vars

\* C20: a frame whose declared payload length exceeds 10 MiB is not
\* dispatched; the connection stays open.
C20_OversizedFrameRejected ==
    [][(last'.op = "publish" /\ payloadLength(last'.msg) > MaxFrameLength) =>
          (/\ last'.writes = NoWrites
           /\ DB' = DB
           /\ inbox' = inbox
           /\ sentMessages' = sentMessages
           /\ connState' = connState)]_vars

\* C23: when the write to one subscriber fails during a publish, the other
\* subscribers of the topic, before or after the failing one in the list,
\* are still written the message in that call.
C23_FailureDoesNotAbortFanout ==
    [][last'.op = "publish" =>
          \A s \in Subscribers(clients, last'.msg.topic) :
              connState[s] = "open" => FramesTo(last'.writes, s) # {}]_vars

\* C24: when a write to a subscriber fails during a publish, the message is
\* stored under its "false-" key with attempts above the value it carried,
\* and the session whose write failed stays in the registry.
C24_FailedWritePersists ==
    [][(/\ last'.op = "publish"
        /\ HasPrefix(last'.msg.id, FalseDash)
        /\ \E s \in Subscribers(clients, last'.msg.topic) : connState[s] # "open") =>
          (/\ last'.msg.id \in DOMAIN DB'
           /\ DB'[last'.msg.id].Attempts > last'.msg.attempts
           /\ clients' = clients)]_vars

\* C21: of two messages m1 then m2 published by the same session to the same
\* topic, a subscriber that receives both on first delivery receives m1
\* first: no subscriber is written m1 when it already has m2.
PublishedBefore(h, c, m1, m2) ==
    \E i, j \in 1..Len(h[c]) : i < j /\ h[c][i].msg = m1 /\ h[c][j].msg = m2

C21_FanoutKeepsPublisherOrder ==
    [][\A s \in Conns, c \in Conns :
          \A m2 \in inbox[s] : \A m1 \in inbox'[s] \ inbox[s] :
              ~PublishedBefore(handler', c, m1, m2)]_vars

C21_Witness ==
    \E s \in Conns, c \in Conns : \E m1 \in inbox[s], m2 \in inbox[s] :
        /\ m1.topic = m2.topic
        /\ PublishedBefore(handler, c, m1, m2)

\* C25: there is a single scheduler task and at most one scan-and-republish
\* pass is in progress at any time, however many connections were accepted.
C25_SingleSchedulerPass ==
    /\ Cardinality({r \in Conns : runner[r].pc # "off"}) <= 1
    /\ Cardinality({r \in Conns : runner[r].pc = "pass"}) <= 1

\* C29: the scan leaves the store unchanged, and the attempts stored for a
\* message change only through save (a publish or a redelivery).
C29_ScanReadOnly ==
    [][/\ last'.op = "scan" => DB' = DB
       /\ \A k \in DOMAIN DB, k2 \in DOMAIN DB' :
            (DB[k].NextID = DB'[k2].NextID /\ DB'[k2].Attempts # DB[k].Attempts)
                => last'.op \in {"publish", "send"}]_vars

\* C26: promoteAck is atomic: when the write under next_id fails, the
\* transaction aborts and the "false-" entry is still there; the "false-"
\* key is never deleted without the next_id key being written.
C26_PromoteAckAtomic ==
    [][last'.op = "ack" =>
          /\ last'.err => DB' = DB
          /\ (last'.msg.id \in DOMAIN DB /\ last'.msg.id \notin DOMAIN DB')
                => last'.msg.nextID \in DOMAIN DB']_vars

C26_Witness ==
    /\ last.op = "ack"
    /\ last.err
    /\ last.found
    /\ HasPrefix(last.msg.id, FalseDash)
    /\ last.msg.id \in DOMAIN DB

\* C27: a "false-" entry whose stored attempts exceed 3 is never returned by
\* a scan, and a tick leaves it in the store unchanged.
Stuck(db) == {k \in Pending(db) : db[k].Attempts > ScanMaxAttempts}

C27_StuckEntrySkipped ==
    [][last'.op = "tick" =>
          /\ \A i \in 1..Len(scanEntries(DB)) : scanEntries(DB)[i].key \notin Stuck(DB)
          /\ \A k \in Stuck(DB) : k \in DOMAIN DB' /\ DB'[k] = DB[k]]_vars

\* C28: a redelivery in which every subscriber write succeeds does not take
\* the first-save branch of publish (the branch for attempts <= 1) and
\* leaves the store unchanged.
C28_RedeliverySkipsFirstSave ==
    [][(/\ last'.op = "tick"
        /\ last'.writes # NoWrites
        /\ \A t \in DOMAIN clients : AllOpen(clients, connState, t)) =>
          (/\ DB' = DB
           /\ \A i \in 1..Len(last'.writes) : last'.writes[i].msg.attempts > 1)]_vars

\* C22: decoding the textual encoding of a message, and decoding its binary
\* encoding, gives back the message field for field (a nil body and an empty
\* one count as the same body)
SameMessage(a, b) ==
    /\ \A f \in (DOMAIN a) \ {"body"} : a[f] = b[f]
    /\ a.body.bytes = b.body.bytes

C22_CodecRoundTrip ==
    last.op = "decode" => (~last.err /\ SameMessage(last.msg, last.input))

\* C30: a session whose stream has ended or failed (end of stream at the
\* format flag or in the middle of a frame, a read error that is not EOF)
\* eventually terminates: its handler has left the loop and none of its
\* subscription rows is left.
C30_SessionTerminates ==
    \A c \in Conns :
        (connState[c] \in Ended) ~>
            (/\ connState[c] = "closed"
             /\ \A t \in DOMAIN clients : c \notin Subscribers(clients, t))

\* C37: a disconnect changes only the registry rows of the session that
\* ended: the rows of the other sessions are as before, in the same order,
\* and a topic the session had no row in (one created by NEW_TOPIC and still
\* without subscriber, for instance) keeps its registry entry.
RowsOfOthers(cl, t, conn) ==
    SelectSeq(lookupClients(cl, t), LAMBDA row : row.conn # conn)

C34_SaveNeedsFalseDash ==
    [][(last'.op = "publish" /\ ~HasPrefix(last'.msg.id, FalseDash)) => DB' = DB]_vars

\* C31: once Close has closed the listener, the accept loop of Start ends:
\* Start returns.
C31_StartReturnsAfterClose == (listener = "closed") ~> (acceptor = "returned")

\* C33: the sent counter of a topic equals the number of successful
\* subscriber writes made for the topic, less the writes whose increment is
\* still to come, also when two publishers send to the topic at once: no
\* increment is lost, the one that creates the counter included.
Written(w, topic) ==
    Cardinality({k \in 1..Len(w) : w[k].part = "payload" /\ w[k].msg.topic = topic})

RECURSIVE WrittenTo(_, _)
WrittenTo(S, topic) ==
    IF S = {} THEN 0
    ELSE LET c == CHOOSE x \in S : TRUE
         IN  Written(wire[c], topic) + WrittenTo(S \ {c}, topic)

Counter(sent, topic) == IF topic \in DOMAIN sent THEN sent[topic] ELSE 0

ToCount(topic) ==
    Cardinality({c \in Conns : /\ sending[c].pc \in {"save", "lookup", "add"}
                               /\ sending[c].msg.topic = topic})

C33_CounterCountsWrites ==
    \A topic \in TopicNames :
        Counter(sentMessages, topic) + ToCount(topic) = WrittenTo(Conns, topic)

\* C35: once the broker has processed the ACK of a message u (the entry u
\* with ack = true is in the store), there is no entry under "false-"+u, and
\* so the scan of the scheduler does not return u, whatever the interleaving
\* of the ACK with the steps of the publish call.
Acked(db) == {u \in Uuids : <<u>> \in DOMAIN db}

C35_AckedStaysAcked ==
    \A u \in Acked(DB) :
        /\ generateID(MsgPrefixFalse, <<u>>) \notin DOMAIN DB
        /\ \A i \in 1..Len(scanEntries(DB)) :
              scanEntries(DB)[i].key # generateID(MsgPrefixFalse, <<u>>)

\* C36: on a subscriber's stream the three parts of a delivered frame are
\* contiguous: a payload is preceded by the length and the format flag of
\* the same frame, also when two publishers write to the subscriber at once.
Contiguous(w) ==
    \A k \in 1..Len(w) :
        w[k].part = "payload" =>
            /\ k >= 3
            /\ w[k - 1] = [part |-> "length", msg |-> w[k].msg]
            /\ w[k - 2] = [part |-> "flag", msg |-> w[k].msg]

C36_FrameBytesContiguous == \A c \in Conns : Contiguous(wire[c])

\* C32: the accesses to the registry exclude one another: a session task
\* does not change the list of a topic while the fanout of another task ranges
\* over the list of that topic, or while another task is inside disconnect.
Changed(cl, cl2) ==
    {t \in (DOMAIN cl) \cup (DOMAIN cl2) : lookupClients(cl, t) # lookupClients(cl2, t)}

C32_RegistryAccessExclusive ==
    [][\A t \in Changed(clients, clients') :
          \A d \in Conns \ {last'.conn} :
              /\ ~(sending[d].pc # "idle" /\ sending[d].msg.topic = t)
              /\ leaving[d].pc = "off"]_vars

\* C38: when a session disconnects during a fanout to the same topic, no
\* subscriber is written the message more often than it has rows in the list
\* the fanout started with, and when the fanout ends without a failed write
\* every subscriber of that list that is still connected was written once
\* for each of its rows.
Rows(cls, conn) == Cardinality({i \in 1..Len(cls) : cls[i].conn = conn})

FramesOf(w, msg) ==
    Cardinality({k \in 1..Len(w) : w[k].part = "payload" /\ w[k].msg = msg})

C38_FanoutWritesEachOnce ==
    [][\A c \in Conns :
          /\ sending'[c].pc # "idle" =>
                \A d \in Conns :
                    FramesOf(wire'[d], sending'[c].msg) <= Rows(sending'[c].started, d)
          /\ (sending[c].pc = "next" /\ sending'[c].pc = "idle") =>
                \A d \in Conns :
                    connState[d] = "open" =>
                        FramesOf(wire[d], sending[c].msg) = Rows(sending[c].started, d)]_vars

\* C39: a session is written a message frame only for a topic it is
\* subscribed to at that moment: the frames of a publish for a topic go to
\* sessions that have a row in the list of that topic, the frames of a
\* redelivery go to sessions that have a row in the list of the topic of a
\* stored entry the scan returned, and the reply to an AUTH frame goes to the
\* session that sent it and to no other.
LastPart(w) == w[Len(w)]

ScannedTopics(db) == {db[scanEntries(db)[i].key].Topic : i \in 1..Len(scanEntries(db))}

C39_WrittenOnlyToSubscribers ==
    [][/\ \A d \in Conns :
             (Len(wire'[d]) > Len(wire[d]) /\ LastPart(wire'[d]).part = "payload")
                 => d \in Subscribers(clients, LastPart(wire'[d]).msg.topic)
       /\ last'.op = "tick" =>
             \A i \in 1..Len(last'.writes) :
                 \E topic \in ScannedTopics(DB) :
                     last'.writes[i].conn \in Subscribers(clients, topic)
       /\ last'.op = "auth" =>
             /\ \A i \in 1..Len(last'.writes) : last'.writes[i].conn = last'.conn
             /\ wire' = wire
             /\ inbox' = inbox]_vars
=============================================================================
